---- MODULE Spec2Model ----
(***************************************************************************)
(* Model of the expression core of teachers/maths.py: the node             *)
(* constructors with their validators, the operator overloads, the         *)
(* per-node simplified() rule tables, eval(), repr() and                   *)
(* MathsObjectParser.from_repr.                                            *)
(*                                                                         *)
(* Values.  Every Python value is a record with a kind field k.            *)
(*   [k |-> "int", n |-> 3]            a raw Python int                    *)
(*   [k |-> "NoneType"]                Python None                         *)
(*   [k |-> "Error", type |-> t, msg |-> m]   a raised exception           *)
(*   [k |-> "Integer", n |-> 3] ... [k |-> "Add", l |-> a, r |-> b] ...    *)
(*                                     MathsObject nodes                   *)
(*   [k |-> "Backend", of |-> t]                                           *)
(*       the outcome of simplifying tree t when it is decided by the sympy *)
(*       fallback: sympy is not part of the repository, so the outcome is  *)
(*       left opaque (from_sympy of sympy's answer, or the rebuilt node    *)
(*       when sympy raises); a node with such a child is opaque as well.   *)
(*       The backend is taken to preserve value: it evaluates as t does.   *)
(* An Optional[int] field holds <<>> for None and <<n>> for n; an          *)
(* Optional[float] field holds <<>> for None and the float <<num, den>>.  *)
(***************************************************************************)
EXTENDS Integers, Sequences, FiniteSets, TLC

VARIABLES expr, result, op

vars == <<expr, result, op>>

(* ------------------------------------------------------------------ *)
(* Bounds of the model                                                 *)
(* ------------------------------------------------------------------ *)
MaxInt == 2

MaxDepth == 2

MaxFrac == 6

BuildDepth == 1

(* ------------------------------------------------------------------ *)
(* Arithmetic helpers                                                  *)
(* ------------------------------------------------------------------ *)
Abs(n) == IF n < 0 THEN -n ELSE n

RECURSIVE GcdNat(_, _)
GcdNat(a, b) == IF b = 0 THEN a ELSE GcdNat(b, a % b)

\* sympy.gcd on two integers: the non-negative greatest common divisor.
Gcd(a, b) == GcdNat(Abs(a), Abs(b))

\* Python's n1 / gcd followed by int(): exact when gcd divides n1.
IntDiv(a, b) == IF a >= 0 THEN a \div b ELSE -((-a) \div b)

RECURSIVE IntPow(_, _)
IntPow(b, e) == IF e <= 0 THEN 1 ELSE b * IntPow(b, e - 1)

\* A float is the exact rational <<num, den>> in lowest terms with den > 0;
\* <<0, 0>> stands for a float that is no rational of the model (pi, a root)
\* and is absorbing in the arithmetic below.
NotRational == <<0, 0>>

Rat(num, den) ==
    IF den = 0 THEN NotRational
    ELSE LET g == Gcd(num, den)
             s == IF den < 0 THEN -1 ELSE 1
         IN  <<IntDiv(s * num, g), IntDiv(s * den, g)>>

RatOfInt(n) == <<n, 1>>

IsRational(a) == a[2] # 0

RatAdd(a, b) == Rat(a[1] * b[2] + b[1] * a[2], a[2] * b[2])

RatMul(a, b) == Rat(a[1] * b[1], a[2] * b[2])

RatIsZero(a) == a[1] = 0 /\ a[2] # 0

\* a / b for b not zero
RatDiv(a, b) == IF IsRational(a) /\ IsRational(b) THEN Rat(a[1] * b[2], a[2] * b[1])
                ELSE NotRational

RatIsInteger(a) == a[2] = 1

RECURSIVE RatPow(_, _)
RatPow(a, e) == IF e <= 0 THEN <<1, 1>> ELSE RatMul(a, RatPow(a, e - 1))

\* the natural r with r^q = n, as a one-element set, or {} when n is no q-th power
NatRoot(n, q) == {r \in 0..n : IntPow(r, q) = n}

\* a ** (p/q) for a float a >= 0 and a reduced exponent p/q with q > 1, p > 0
RatRootPow(a, p, q) ==
    IF ~IsRational(a) \/ a[1] < 0 THEN NotRational
    ELSE IF NatRoot(a[1], q) = {} \/ NatRoot(a[2], q) = {} THEN NotRational
    ELSE LET r == CHOOSE r \in NatRoot(a[1], q) : TRUE
             t == CHOOSE t \in NatRoot(a[2], q) : TRUE
         IN  RatPow(Rat(r, t), p)

(* ------------------------------------------------------------------ *)
(* Python values                                                       *)
(* ------------------------------------------------------------------ *)
PyInt(n) == [k |-> "int", n |-> n]

PyNone == [k |-> "NoneType"]

Raise(type, msg) == [k |-> "Error", type |-> type, msg |-> msg]

IsError(v) == v.k = "Error"

IsNone(v) == v.k = "NoneType"

MathsKinds ==
    {"Integer", "Decimal", "Symbol", "Pi", "Inf", "Add", "Mul", "Fraction",
     "Pow", "Equality", "StrictGreaterThan", "Interval", "Image", "Backend"}

\* isinstance(v, MathsObject)
IsMathsObject(v) == v.k \in MathsKinds

\* the first exception raised while the arguments were evaluated, if any
FirstError(args) ==
    LET bad == {i \in 1..Len(args) : IsError(args[i])}
    IN  args[CHOOSE i \in bad : \A j \in bad : i <= j]

AnyError(args) == \E i \in 1..Len(args) : IsError(args[i])

(* ------------------------------------------------------------------ *)
(* Constructors (pydantic validators)                                  *)
(* ------------------------------------------------------------------ *)
Integer(n) == [k |-> "Integer", n |-> n]

Symbol(s) ==
    IF s = "" THEN Raise("ValidationError", "Symbol name cannot be an empty string")
    ELSE [k |-> "Symbol", s |-> s]

Pi == [k |-> "Pi"]

Inf == [k |-> "Inf"]

\* Decimal(p=..., q=..., x=...): each argument is <<>> (absent or None) or <<v>>.
Decimal(p, q, x) ==
    LET has_p == p # <<>>
        has_q == q # <<>>
        has_x == x # <<>>
    IN  IF has_p /\ has_q /\ has_x
          THEN Raise("ValidationError", "Must provide either 'x' OR 'p' and 'q'")
        ELSE IF (has_p /\ has_q) \/ has_x
          THEN [k |-> "Decimal", p |-> p, q |-> q, x |-> x]
        ELSE Raise("ValidationError", "Must provide either 'x' OR 'p' and 'q'")

DecimalX(x) == Decimal(<<>>, <<>>, x)

DecimalPQ(p, q) == Decimal(<<p>>, <<q>>, <<>>)

\* data["l"].sympy_expr on something that is no node
NoSympyExpr(v) == Raise("AttributeError", "object has no attribute 'sympy_expr'")

Binary(kind, l, r) ==
    IF AnyError(<<l, r>>) THEN FirstError(<<l, r>>)
    ELSE IF ~IsMathsObject(l) THEN NoSympyExpr(l)
    ELSE IF ~IsMathsObject(r) THEN NoSympyExpr(r)
    ELSE [k |-> kind, l |-> l, r |-> r]

Add(l, r) == Binary("Add", l, r)

Mul(l, r) == Binary("Mul", l, r)

Equality(l, r) == Binary("Equality", l, r)

StrictGreaterThan(l, r) == Binary("StrictGreaterThan", l, r)

format_numerator(value) ==
    IF value.k = "int" THEN Integer(value.n)
    ELSE IF IsMathsObject(value) THEN value
    ELSE Raise("NotImplementedError", "format_numerator")

format_denominator_unchecked(value) ==
    IF value.k = "int" THEN
        IF value.n = 0 THEN Raise("ValidationError", "Denominator cannot be zero")
        ELSE Integer(value.n)
    ELSE IF IsMathsObject(value) THEN value
    ELSE Raise("NotImplementedError", "format_denominator")

format_denominator(value) ==
    IF value.k = "int" THEN
        IF value.n = 0 THEN Raise("ValidationError", "Denominator cannot be zero")
        ELSE Integer(value.n)
    ELSE IF IsMathsObject(value) THEN
        IF value.k = "Integer" /\ value.n = 0
          THEN Raise("ValidationError", "Denominator cannot be zero")
        ELSE value
    ELSE Raise("NotImplementedError", "format_denominator")

IsIntLike(v) == v.k \in {"int", "Integer"}

\* Fraction(p=..., q=...): compute_sympy_expr runs first, then the field validators.
Fraction(p, q) ==
    IF AnyError(<<p, q>>) THEN FirstError(<<p, q>>)
    ELSE IF ~((IsIntLike(p) /\ IsIntLike(q)) \/ (IsMathsObject(p) /\ IsMathsObject(q)))
      THEN Raise("NotImplementedError", "Fraction(type(p), type(q))")
    ELSE LET fp == format_numerator(p)
             fq == format_denominator(q)
         IN  IF AnyError(<<fp, fq>>) THEN FirstError(<<fp, fq>>)
             ELSE [k |-> "Fraction", p |-> fp, q |-> fq]

format_base(value) ==
    IF value.k = "int" THEN Integer(value.n)
    ELSE IF IsMathsObject(value) THEN value
    ELSE Raise("NotImplementedError", "Unsupported base type")

\* Pow(base=..., exp=...): compute_sympy_expr reads .sympy_expr of the raw arguments.
Pow(base, exp) ==
    IF AnyError(<<base, exp>>) THEN FirstError(<<base, exp>>)
    ELSE IF ~IsMathsObject(base) THEN NoSympyExpr(base)
    ELSE IF ~IsMathsObject(exp) THEN NoSympyExpr(exp)
    ELSE [k |-> "Pow", base |-> format_base(base), exp |-> format_base(exp)]

Interval(l, r, left_open, right_open) ==
    IF AnyError(<<l, r>>) THEN FirstError(<<l, r>>)
    ELSE IF ~IsMathsObject(l) THEN NoSympyExpr(l)
    ELSE IF ~IsMathsObject(r) THEN NoSympyExpr(r)
    ELSE [k |-> "Interval", l |-> l, r |-> r,
          left_open |-> left_open, right_open |-> right_open]

MathsCollection(elements) ==
    IF AnyError(elements) THEN FirstError(elements)
    ELSE IF \E i \in 1..Len(elements) : ~IsMathsObject(elements[i])
      THEN Raise("ValidationError", "All elements must be MathsObject instances")
    ELSE [k |-> "MathsCollection", elements |-> elements]

Function(name) ==
    IF name = "" THEN Raise("ValidationError", "Symbol name cannot be an empty string")
    ELSE [k |-> "Function", name |-> name]

Image(f, pre) ==
    IF AnyError(<<f, pre>>) THEN FirstError(<<f, pre>>)
    ELSE IF f.k # "Function" THEN NoSympyExpr(f)
    ELSE IF ~(IsMathsObject(pre) \/ pre.k = "MathsCollection") THEN NoSympyExpr(pre)
    ELSE [k |-> "Image", f |-> f, pre |-> pre]

(* ------------------------------------------------------------------ *)
(* Operator overloads of MathsObject                                   *)
(* ------------------------------------------------------------------ *)
IsInteger(v, n) == v.k = "Integer" /\ v.n = n

\* a unary minus that only wraps its operand
neg_wrap_only(self) == Mul(Integer(-1), self)

__neg__(self) ==
    IF IsError(self) THEN self
    ELSE IF ~IsMathsObject(self) THEN Raise("TypeError", "bad operand type for unary -")
    ELSE IF self.k = "Integer" THEN Integer(-self.n)
    ELSE IF self.k = "Mul" /\ IsInteger(self.l, -1) THEN self.r
    ELSE Mul(Integer(-1), self)

__add__(self, other) == Add(self, other)

__sub__(self, other) ==
    Add(self, IF other.k = "int" THEN PyInt(-other.n) ELSE __neg__(other))

__mul__(self, other) == Mul(self, other)

__truediv__(self, other) == Fraction(self, other)

__pow__(self, other) == Pow(self, other)

__gt__(self, other) == StrictGreaterThan(self, other)

__lt__(self, other) == StrictGreaterThan(other, self)

(* ------------------------------------------------------------------ *)
(* eval(): a number is [k |-> "num", v |-> <<num, den>>].              *)
(* ------------------------------------------------------------------ *)
Num(v) == [k |-> "num", v |-> v]

NumAdd(a, b) ==
    IF AnyError(<<a, b>>) THEN FirstError(<<a, b>>)
    ELSE Num(RatAdd(a.v, b.v))

NumMul(a, b) ==
    IF AnyError(<<a, b>>) THEN FirstError(<<a, b>>)
    ELSE Num(RatMul(a.v, b.v))

NumDiv(a, b) ==
    IF AnyError(<<a, b>>) THEN FirstError(<<a, b>>)
    ELSE IF RatIsZero(b.v) THEN Raise("ZeroDivisionError", "division by zero")
    ELSE Num(RatDiv(a.v, b.v))

\* Python's a ** b on numbers
NumPow(a, b) ==
    IF AnyError(<<a, b>>) THEN FirstError(<<a, b>>)
    ELSE IF ~IsRational(a.v) \/ ~IsRational(b.v) THEN Num(NotRational)
    ELSE IF RatIsZero(a.v) /\ b.v[1] < 0
      THEN Raise("ZeroDivisionError", "0.0 cannot be raised to a negative power")
    ELSE IF RatIsInteger(b.v) THEN
        IF b.v[1] >= 0 THEN Num(RatPow(a.v, b.v[1]))
        ELSE Num(RatDiv(<<1, 1>>, RatPow(a.v, -b.v[1])))
    ELSE IF b.v[1] > 0 THEN Num(RatRootPow(a.v, b.v[1], b.v[2]))
    ELSE Num(RatDiv(<<1, 1>>, RatRootPow(a.v, -b.v[1], b.v[2])))

\* Decimal.eval
DecimalValue(d) == IF d.x # <<>> THEN d.x ELSE Rat(d.p[1], d.q[1])

RECURSIVE eval(_)
eval(self) ==
    CASE self.k = "Integer" -> Num(RatOfInt(self.n))
      [] self.k = "Decimal" -> Num(DecimalValue(self))
      [] self.k = "Pi" -> Num(NotRational)
      [] self.k = "Add" -> NumAdd(eval(self.l), eval(self.r))
      [] self.k = "Mul" -> NumMul(eval(self.l), eval(self.r))
      [] self.k = "Fraction" -> NumDiv(eval(self.p), eval(self.q))
      [] self.k = "Pow" -> NumPow(eval(self.base), eval(self.exp))
      [] self.k = "Error" -> self
      [] self.k = "Backend" -> eval(self.of)
      [] self.k = "NoneType" ->
            Raise("AttributeError", "'NoneType' object has no attribute 'eval'")
      [] OTHER -> Raise("NotImplementedError", "Eval of " \o self.k)

(* ------------------------------------------------------------------ *)
(* simplified()                                                        *)
(* ------------------------------------------------------------------ *)
Backend(self) == [k |-> "Backend", of |-> self]

IsBackend(v) == v.k = "Backend"

\* Python truthiness of an Optional[float]:  if x:
Truthy(x) == x # <<>> /\ ~RatIsZero(x)

RECURSIVE simplified(_)

\* from_sympy has no case for sp.pi and raises NotImplementedError on it.
\* f(pi) times, over or plus a non-zero number is a backend expression
\* that keeps its pi whatever expand and simplify do.
from_sympy_raises(rebuilt) ==
    LET pair == IF rebuilt.k = "Fraction" THEN <<rebuilt.p, rebuilt.q>>
                ELSE <<rebuilt.l, rebuilt.r>>
        ImageOfPi(v) == v.k = "Image" /\ v.pre.k = "Pi"
        Number(v) == /\ v.k \in {"Integer", "Decimal", "Fraction"}
                     /\ LET e == eval(v)
                        IN  e.k = "num" /\ IsRational(e.v) /\ ~RatIsZero(e.v)
    IN  ~IsError(rebuilt) /\ \E i \in 1..2 : ImageOfPi(pair[i]) /\ Number(pair[3 - i])

\* The default arm of Add, Mul and Fraction: try sympy, except rebuild.
sympy_fallback(self, rebuilt) ==
    IF from_sympy_raises(rebuilt) THEN rebuilt ELSE Backend(self)

\* p2.eval() / q2.eval() as a float, or the exception it raises
FractionFloat(p, q) == NumDiv(eval(p), eval(q))

\* Decimal(x=a + b) where a is a float and b the outcome of an eval
DecimalOfSum(a, b) ==
    IF IsError(b) THEN b ELSE DecimalX(RatAdd(a, b.v))

Add_simplified(self, l, r) ==
    IF r.k = "Integer" /\ r.n = 0 THEN l
    ELSE IF l.k = "Integer" /\ l.n = 0 THEN r
    ELSE IF l.k = "Integer" /\ r.k = "Integer" THEN Integer(l.n + r.n)
    ELSE IF l.k = "Fraction" /\ r.k = "Fraction" THEN
        simplified(Fraction(__add__(__mul__(l.p, r.q), __mul__(r.p, l.q)),
                            __mul__(l.q, r.q)))
    ELSE IF l.k = "Fraction" /\ r.k = "Integer" THEN
        simplified(Fraction(__add__(l.p, __mul__(Integer(r.n), l.q)), l.q))
    ELSE IF l.k = "Integer" /\ r.k = "Fraction" THEN
        simplified(Fraction(__add__(r.p, __mul__(Integer(l.n), r.q)), r.q))
    ELSE IF l.k = "Integer" /\ r.k = "Decimal" THEN
        DecimalX(RatAdd(RatOfInt(l.n), DecimalValue(r)))
    ELSE IF l.k = "Decimal" /\ r.k = "Integer" THEN
        DecimalX(RatAdd(RatOfInt(r.n), DecimalValue(l)))
    ELSE IF l.k = "Decimal" /\ r.k = "Fraction" THEN
        DecimalOfSum(DecimalValue(l), FractionFloat(r.p, r.q))
    ELSE IF l.k = "Fraction" /\ r.k = "Decimal" THEN
        DecimalOfSum(DecimalValue(r), FractionFloat(l.p, l.q))
    ELSE IF l.k = "Decimal" /\ r.k = "Decimal" THEN
        DecimalX(RatAdd(DecimalValue(l), DecimalValue(r)))
    ELSE IF l.k = "Add" /\ r.k = "Decimal" THEN
        IF Truthy(r.x) THEN Add(l.l, Add(l.r, DecimalX(r.x)))
        ELSE Add(l.l, Add(l.r, Decimal(r.p, r.q, <<>>)))
    ELSE IF l.k = "Add" /\ r.k = "Integer" THEN
        Add(l.l, Add(l.r, Integer(r.n)))
    ELSE IF l.k = "Symbol" /\ r.k = "Symbol" /\ l.s # r.s THEN Add(l, r)
    ELSE IF (l.k = "Symbol" /\ r.k \in {"Integer", "Decimal"})
            \/ (l.k \in {"Integer", "Decimal"} /\ r.k = "Symbol") THEN Add(l, r)
    ELSE IF (l.k = "Pi" /\ r.k \in {"Integer", "Decimal", "Fraction"})
            \/ (l.k \in {"Integer", "Decimal", "Fraction"} /\ r.k = "Pi") THEN Add(l, r)
    ELSE IF (l.k = "Mul" /\ r.k = "Integer") \/ (l.k = "Integer" /\ r.k = "Mul")
      THEN Add(l, r)
    ELSE IF (l.k = "Mul" /\ r.k = "Symbol") \/ (l.k = "Symbol" /\ r.k = "Mul")
      THEN Add(l, r)
    ELSE IF (l.k = "Pow" /\ r.k = "Integer") \/ (l.k = "Integer" /\ r.k = "Pow")
      THEN Add(l, r)
    ELSE IF (l.k = "Pow" /\ r.k = "Mul") \/ (l.k = "Mul" /\ r.k = "Pow")
      THEN Add(l, r)
    ELSE IF l.k = "Mul" /\ r.k = "Mul" THEN Add(l, r)
    ELSE sympy_fallback(self, Add(l, r))

\* Integer(n) * Decimal in Mul.simplified
MulIntegerDecimal(n, d) ==
    IF Truthy(d.x) THEN DecimalX(RatMul(RatOfInt(n), d.x))
    ELSE IF d.p = <<>>
      THEN Raise("TypeError", "unsupported operand type(s) for *: 'int' and 'NoneType'")
    ELSE Decimal(<<n * d.p[1]>>, d.q, <<>>)

Mul_simplified(self, l, r) ==
    IF l.k = "Integer" /\ l.n = 1 THEN r
    ELSE IF r.k = "Integer" /\ r.n = 1 THEN l
    ELSE IF (l.k = "Integer" /\ l.n = 0) \/ (r.k = "Integer" /\ r.n = 0) THEN Integer(0)
    ELSE IF l.k = "Integer" /\ r.k = "Integer" THEN Integer(l.n * r.n)
    ELSE IF l.k = "Integer" /\ r.k = "Decimal" THEN MulIntegerDecimal(l.n, r)
    ELSE IF l.k = "Decimal" /\ r.k = "Integer" THEN MulIntegerDecimal(r.n, l)
    ELSE IF l.k = "Integer" /\ r.k = "Fraction" THEN
        simplified(Fraction(__mul__(Integer(l.n), r.p), r.q))
    ELSE IF l.k = "Fraction" /\ r.k = "Integer" THEN
        simplified(Fraction(__mul__(Integer(r.n), l.p), l.q))
    ELSE IF l.k = "Integer" /\ r.k = "Pow" THEN Mul(Integer(l.n), Pow(r.base, r.exp))
    ELSE IF l.k = "Pow" /\ r.k = "Integer" THEN Mul(Integer(r.n), Pow(l.base, l.exp))
    ELSE IF l.k = "Fraction" /\ r.k = "Fraction" THEN
        simplified(Fraction(__mul__(l.p, r.p), __mul__(l.q, r.q)))
    ELSE IF l.k = "Mul" /\ l.r.k = "Symbol" /\ r.k = "Decimal" THEN
        IF Truthy(r.x)
          THEN Mul(simplified(Mul(DecimalX(r.x), l.l)), Symbol(l.r.s))
        ELSE Mul(simplified(Mul(Decimal(r.p, r.q, <<>>), l.l)), Symbol(l.r.s))
    ELSE IF l.k = "Symbol" /\ r.k = "Symbol" /\ l.s # r.s THEN Mul(l, r)
    ELSE IF l.k = "Integer" /\ r.k = "Image" THEN Mul(Integer(l.n), r)
    ELSE IF l.k = "Image" /\ r.k = "Integer" THEN Mul(Integer(r.n), l)
    ELSE IF l.k = "Integer" /\ r.k = "Symbol" THEN Mul(Integer(l.n), Symbol(r.s))
    ELSE IF l.k = "Symbol" /\ r.k = "Integer" THEN Mul(Integer(r.n), Symbol(l.s))
    ELSE IF l.k = "Decimal" /\ r.k = "Image" THEN Mul(Decimal(l.p, l.q, l.x), r)
    ELSE IF l.k = "Image" /\ r.k = "Decimal" THEN Mul(Decimal(r.p, r.q, r.x), l)
    ELSE IF l.k = "Integer" /\ r.k = "Pi" THEN Mul(Integer(l.n), Pi)
    ELSE IF l.k = "Pi" /\ r.k = "Integer" THEN Mul(Integer(r.n), Pi)
    ELSE IF l.k = "Decimal" /\ r.k = "Pi" THEN Mul(Decimal(l.p, l.q, l.x), Pi)
    ELSE IF l.k = "Pi" /\ r.k = "Decimal" THEN Mul(Decimal(r.p, r.q, r.x), Pi)
    ELSE IF l.k = "Fraction" /\ r.k = "Pi" THEN Mul(Fraction(l.p, l.q), Pi)
    ELSE IF l.k = "Pi" /\ r.k = "Fraction" THEN Mul(Fraction(r.p, r.q), Pi)
    ELSE IF l.k = "Pi" /\ r.k = "Pow" THEN Mul(Pi, Pow(r.base, r.exp))
    ELSE IF l.k = "Pow" /\ r.k = "Pi" THEN Mul(Pi, Pow(l.base, l.exp))
    ELSE IF l.k = "Mul" /\ r.k = "Symbol" THEN Mul(Mul(l.l, l.r), Symbol(r.s))
    ELSE IF l.k = "Symbol" /\ r.k = "Mul" THEN Mul(Mul(r.l, r.r), Symbol(l.s))
    ELSE IF l.k = "Integer" /\ r.k = "Mul" THEN
        simplified(Mul(simplified(Mul(Integer(l.n), r.l)), r.r))
    ELSE IF l.k = "Mul" /\ r.k = "Integer" THEN
        simplified(Mul(l.l, simplified(Mul(l.r, Integer(r.n)))))
    ELSE IF l.k = "Mul" /\ r.k = "Pow" THEN Mul(Mul(l.l, l.r), Pow(r.base, r.exp))
    ELSE IF l.k = "Pow" /\ r.k = "Mul" THEN Mul(Mul(r.l, r.r), Pow(l.base, l.exp))
    ELSE IF l.k = "Add" /\ r.k = "Add" THEN
        LET ac == simplified(__mul__(l.l, r.l))
            ad == simplified(__mul__(l.l, r.r))
            bc == simplified(__mul__(l.r, r.l))
            bd == simplified(__mul__(l.r, r.r))
        IN  simplified(__add__(__add__(__add__(ac, ad), bc), bd))
    ELSE sympy_fallback(self, Mul(l, r))

\* the same rule without the reduction by the gcd
FractionIntegerInteger_unreduced(p, q) == Fraction(p, q)

\* Integer(n) / Decimal in Fraction.simplified: the branch for a truthy x
\* builds the Decimal and drops it, so the method returns None.
FractionIntegerDecimal(n, d) ==
    IF Truthy(d.x) THEN PyNone
    ELSE IF d.q = <<>>
      THEN Raise("TypeError", "unsupported operand type(s) for *: 'int' and 'NoneType'")
    ELSE IF d.p[1] = 0 THEN Raise("ZeroDivisionError", "division by zero")
    ELSE DecimalX(Rat(n * d.q[1], d.p[1]))

\* Integer(n1) / Integer(n2): sp.gcd is taken on the operands' backend
\* expressions, whose values are n1 and n2.
FractionIntegerInteger(p, q) ==
    LET gcd == Gcd(p.n, q.n)
    IN  IF gcd > 1
          THEN simplified(Fraction(Integer(IntDiv(p.n, gcd)), Integer(IntDiv(q.n, gcd))))
        ELSE Fraction(p, q)

FractionPreserved ==
    {<<"Mul", "Add">>, <<"Add", "Add">>, <<"Symbol", "Mul">>, <<"Symbol", "Symbol">>,
     <<"Symbol", "Pi">>, <<"Symbol", "Pow">>, <<"Mul", "Symbol">>, <<"Mul", "Mul">>,
     <<"Mul", "Pi">>, <<"Mul", "Pow">>, <<"Pi", "Symbol">>, <<"Pi", "Mul">>,
     <<"Integer", "Pi">>, <<"Pow", "Symbol">>, <<"Pow", "Mul">>, <<"Pow", "Pow">>}

Fraction_simplified(self, p, q) ==
    IF q.k = "Integer" /\ q.n = 1 THEN p
    ELSE IF q.k = "Integer" /\ q.n < 0 THEN
        simplified(Fraction(__neg__(p), __neg__(q)))
    ELSE IF p.k = "Integer" /\ q.k = "Integer" THEN FractionIntegerInteger(p, q)
    ELSE IF p.k = "Integer" /\ q.k = "Fraction" THEN
        IF q.q.k # "Integer"
          THEN Raise("AttributeError", "object has no attribute 'n'")
        ELSE simplified(Fraction(Integer(p.n * q.q.n), q.p))
    ELSE IF p.k = "Integer" /\ q.k = "Decimal" THEN FractionIntegerDecimal(p.n, q)
    ELSE IF p.k = "Fraction" /\ q.k = "Fraction" THEN
        simplified(Fraction(__mul__(p.p, q.q), __mul__(q.p, p.q)))
    ELSE IF p.k = "Pi" /\ q.k = "Pi" THEN Integer(1)
    ELSE IF <<p.k, q.k>> \in FractionPreserved THEN Fraction(p, q)
    ELSE sympy_fallback(self, Fraction(p, q))

\* n ** (p / q) for Integer n and a Fraction(Integer(p), Integer(q)) exponent,
\* then x.is_integer()
PowIntegerFraction(base, exp) ==
    LET n == base.n
        v == NumPow(Num(RatOfInt(n)), NumDiv(Num(RatOfInt(exp.p.n)), Num(RatOfInt(exp.q.n))))
    IN  IF IsError(v) THEN v
        ELSE IF n < 0 /\ Rat(exp.p.n, exp.q.n)[2] # 1
          THEN Raise("AttributeError", "'complex' object has no attribute 'is_integer'")
        ELSE IF RatIsInteger(v.v) THEN Integer(v.v[1])
        ELSE Pow(base, exp)

\* Decimal ** Integer(n) in Pow.simplified
PowDecimalInteger(d, n) ==
    IF Truthy(d.x) THEN
        LET v == NumPow(Num(d.x), Num(RatOfInt(n))) IN DecimalX(v.v)
    ELSE IF d.p = <<>>
      THEN Raise("TypeError", "unsupported operand type(s) for **: 'NoneType' and 'int'")
    ELSE IF n >= 0 THEN Decimal(<<IntPow(d.p[1], n)>>, <<IntPow(d.q[1], n)>>, <<>>)
    ELSE IF d.p[1] = 0
      THEN Raise("ZeroDivisionError", "0.0 cannot be raised to a negative power")
    ELSE IF Abs(d.p[1]) = 1 /\ Abs(d.q[1]) = 1
      THEN Decimal(<<IntPow(d.p[1], -n)>>, <<IntPow(d.q[1], -n)>>, <<>>)
    ELSE Raise("ValidationError", "Input should be a valid integer")

\* Fraction(Integer(n1), Integer(n2)) ** Integer(n3)
PowFractionInteger(base, n3) ==
    IF n3 >= 0 THEN Fraction(PyInt(IntPow(base.p.n, n3)), PyInt(IntPow(base.q.n, n3)))
    ELSE Raise("NotImplementedError", "Fraction(type(p), type(q))")

\* an unmatched arm that hands the node back
PowUnhandled_silent(self, base, exp) == self

\* the unmatched arm of Pow.simplified
PowUnhandled(self, base, exp) ==
    Raise("NotImplementedError", "Simplification of Pow")

\* a Pow.simplified that loses the sign of an Integer exponent
Pow_simplified_unsigned(self, base, exp) ==
    IF base.k = "Integer" /\ exp.k = "Integer" THEN Integer(IntPow(base.n, Abs(exp.n)))
    ELSE PowUnhandled(self, base, exp)

Pow_simplified(self, base, exp) ==
    IF exp.k = "Integer" /\ exp.n = -1 THEN Fraction(Integer(1), base)
    ELSE IF base.k = "Integer" /\ exp.k = "Integer" /\ exp.n < 0 THEN
        Fraction(Integer(1), Integer(IntPow(base.n, -exp.n)))
    ELSE IF base.k = "Add" /\ exp.k = "Integer" /\ exp.n = 2 THEN
        __add__(__add__(__pow__(base.l, Integer(2)),
                        simplified(__mul__(__mul__(Integer(2), base.l), base.r))),
                __pow__(base.r, Integer(2)))
    ELSE IF base.k = "Mul" /\ exp.k = "Fraction" THEN Pow(base, exp)
    ELSE IF base.k = "Integer" /\ exp.k = "Integer" THEN Integer(IntPow(base.n, exp.n))
    ELSE IF base.k = "Integer" /\ exp.k = "Fraction"
            /\ exp.p.k = "Integer" /\ exp.q.k = "Integer" THEN
        PowIntegerFraction(base, exp)
    ELSE IF base.k = "Fraction" /\ base.p.k = "Integer" /\ base.q.k = "Integer"
            /\ exp.k = "Integer" THEN
        PowFractionInteger(base, exp.n)
    ELSE IF base.k = "Decimal" /\ exp.k = "Integer" THEN PowDecimalInteger(base, exp.n)
    ELSE IF (base.k = "Symbol" /\ exp.k = "Integer")
            \/ (base.k = "Integer" /\ exp.k = "Symbol") THEN self
    ELSE PowUnhandled(self, base, exp)

\* the simplified children, or what stops the rule table from being consulted
Dispatch2(self, a, b) ==
    IF AnyError(<<a, b>>) THEN FirstError(<<a, b>>)
    ELSE IF IsBackend(a) \/ IsBackend(b) THEN
        \* the first case of Add and of Mul binds the other operand whatever it is
        IF self.k = "Add" /\ b = Integer(0) THEN a
        ELSE IF self.k = "Add" /\ a = Integer(0) THEN b
        ELSE IF self.k = "Mul" /\ a = Integer(1) THEN b
        ELSE IF self.k = "Mul" /\ b = Integer(1) THEN a
        ELSE IF self.k = "Mul" /\ Integer(0) \in {a, b} THEN Integer(0)
        ELSE Backend(self)
    ELSE CASE self.k = "Add" -> Add_simplified(self, a, b)
           [] self.k = "Mul" -> Mul_simplified(self, a, b)
           [] self.k = "Fraction" -> Fraction_simplified(self, a, b)
           [] self.k = "Pow" -> Pow_simplified(self, a, b)

simplified(self) ==
    CASE self.k \in {"Integer", "Decimal", "Symbol", "Pi", "Inf"} -> self
      [] self.k = "Add" ->
            Dispatch2(self, simplified(self.l), simplified(self.r))
      [] self.k = "Mul" ->
            Dispatch2(self, simplified(self.l), simplified(self.r))
      [] self.k = "Fraction" ->
            Dispatch2(self, simplified(self.p), simplified(self.q))
      [] self.k = "Pow" ->
            Dispatch2(self, simplified(self.base), simplified(self.exp))
      [] self.k = "Equality" -> Equality(simplified(self.l), simplified(self.r))
      [] self.k = "StrictGreaterThan" ->
            StrictGreaterThan(simplified(self.l), simplified(self.r))
      [] self.k = "Interval" ->
            Interval(simplified(self.l), simplified(self.r),
                     self.left_open, self.right_open)
      [] self.k = "Image" -> Image(self.f, simplified(self.pre))
      [] self.k = "MathsCollection" ->
            MathsCollection([i \in 1..Len(self.elements) |->
                                simplified(self.elements[i])])
      [] self.k \in {"Backend", "Error"} -> self
      [] OTHER -> Raise("AttributeError", "object has no attribute 'simplified'")

(* ------------------------------------------------------------------ *)
(* __repr__ and MathsObjectParser.from_repr                            *)
(*                                                                     *)
(* The text a __repr__ prints is held as the tree ast.parse builds     *)
(* from it (Python's own grammar, not code of the repository):         *)
(*   Cls(a=1, b=-2)     Call(Name("Cls"), <<>>, <<a = Constant(1),     *)
(*                           b = UnaryOp(USub, Constant(2))>>)         *)
(*   F(...)(X)          Call(Call(...), <<X>>, <<>>)                   *)
(*   (X, Y)             Tuple(<<X, Y>>);  (X) is X;  () is Tuple(<<>>) *)
(* ------------------------------------------------------------------ *)
PyFloat(v) == [k |-> "float", v |-> v]

PyStr(s) == [k |-> "str", s |-> s]

PyBool(b) == [k |-> "bool", b |-> b]

AstName(id) == [k |-> "Name", id |-> id]

AstConstant(value) == [k |-> "Constant", value |-> value]

AstUSub(operand) == [k |-> "UnaryOp", operand |-> operand]

AstTuple(elts) == [k |-> "Tuple", elts |-> elts]

AstCall(func, args, keywords) ==
    [k |-> "Call", func |-> func, args |-> args, keywords |-> keywords]

Keyword(arg, value) == [arg |-> arg, value |-> value]

\* the text of str(n) for an int, as parsed
IntText(n) == IF n < 0 THEN AstUSub(AstConstant(PyInt(-n))) ELSE AstConstant(PyInt(n))

\* the text of str(x) for a float, as parsed
FloatText(x) ==
    IF x[1] < 0 THEN AstUSub(AstConstant(PyFloat(<<-x[1], x[2]>>)))
    ELSE AstConstant(PyFloat(x))

\* the text of an Optional[int] field: a number or None
OptIntText(p) == IF p = <<>> THEN AstConstant(PyNone) ELSE IntText(p[1])

Decimal_repr(self) ==
    IF Truthy(self.x)
      THEN AstCall(AstName("Decimal"), <<>>, <<Keyword("x", FloatText(self.x))>>)
    ELSE AstCall(AstName("Decimal"), <<>>,
                 <<Keyword("p", OptIntText(self.p)), Keyword("q", OptIntText(self.q))>>)

RECURSIVE repr(_)

Binary_repr(self, cls) ==
    AstCall(AstName(cls), <<>>, <<Keyword("l", repr(self.l)), Keyword("r", repr(self.r))>>)

\* "(" + ", ".join(repr(x) for x in self.elements) + ")"
MathsCollection_repr(self) ==
    IF Len(self.elements) = 1 THEN repr(self.elements[1])
    ELSE AstTuple([i \in 1..Len(self.elements) |-> repr(self.elements[i])])

repr(self) ==
    CASE self.k = "Integer" ->
            AstCall(AstName("Integer"), <<>>, <<Keyword("n", IntText(self.n))>>)
      [] self.k = "Decimal" -> Decimal_repr(self)
      [] self.k = "Symbol" ->
            AstCall(AstName("Symbol"), <<>>, <<Keyword("s", AstConstant(PyStr(self.s)))>>)
      [] self.k = "Pi" -> AstCall(AstName("Pi"), <<>>, <<>>)
      [] self.k = "Inf" -> AstCall(AstName("Inf"), <<>>, <<>>)
      [] self.k = "Add" -> Binary_repr(self, "Add")
      [] self.k = "Mul" -> Binary_repr(self, "Mul")
      [] self.k = "Equality" -> Binary_repr(self, "Equality")
      [] self.k = "StrictGreaterThan" -> Binary_repr(self, "StrictGreaterThan")
      [] self.k = "Fraction" ->
            AstCall(AstName("Fraction"), <<>>,
                    <<Keyword("p", repr(self.p)), Keyword("q", repr(self.q))>>)
      [] self.k = "Pow" ->
            AstCall(AstName("Pow"), <<>>,
                    <<Keyword("base", repr(self.base)), Keyword("exp", repr(self.exp))>>)
      [] self.k = "Interval" ->
            AstCall(AstName("Interval"), <<>>,
                    <<Keyword("l", repr(self.l)), Keyword("r", repr(self.r)),
                      Keyword("left_open", AstConstant(PyBool(self.left_open))),
                      Keyword("right_open", AstConstant(PyBool(self.right_open)))>>)
      [] self.k = "Function" ->
            AstCall(AstName("Function"), <<>>, <<Keyword("name", AstName(self.name))>>)
      [] self.k = "Image" -> AstCall(repr(self.f), <<repr(self.pre)>>, <<>>)
      [] self.k = "MathsCollection" -> MathsCollection_repr(self)

\* the classes getattr(current_module, class_name) finds and the parser can call
ModuleClasses ==
    {"Integer", "Decimal", "Symbol", "Pi", "Inf", "Add", "Mul", "Fraction", "Pow",
     "Equality", "StrictGreaterThan", "Interval", "Function"}

KwHas(kwargs, arg) == \E i \in 1..Len(kwargs) : kwargs[i].arg = arg

KwGet(kwargs, arg) == kwargs[CHOOSE i \in 1..Len(kwargs) : kwargs[i].arg = arg].value

\* a keyword argument, None when it is not given (the field's default)
KwOpt(kwargs, arg) == IF KwHas(kwargs, arg) THEN KwGet(kwargs, arg) ELSE PyNone

\* data["l"] on a missing key
KwReq(kwargs, arg) ==
    IF KwHas(kwargs, arg) THEN KwGet(kwargs, arg) ELSE Raise("KeyError", arg)

\* an Optional[int] argument as the field holds it
OptIntField(v) == IF v.k = "int" THEN <<v.n>> ELSE <<>>

\* an Optional[float] argument as the field holds it
OptFloatField(v) ==
    IF v.k = "float" THEN v.v ELSE IF v.k = "int" THEN RatOfInt(v.n) ELSE <<>>

\* cls(**kwargs)
Construct(cls, kwargs) ==
    CASE cls = "Integer" ->
            LET n == KwReq(kwargs, "n")
            IN  IF IsError(n) THEN n
                ELSE IF n.k = "int" THEN Integer(n.n)
                ELSE Raise("ValidationError", "Input should be a valid integer")
      [] cls = "Decimal" ->
            LET p == KwOpt(kwargs, "p")
                q == KwOpt(kwargs, "q")
                x == KwOpt(kwargs, "x")
            IN  IF \E v \in {p, q} : v.k \notin {"int", "NoneType"}
                  THEN Raise("ValidationError", "Input should be a valid integer")
                ELSE IF x.k \notin {"int", "float", "NoneType"}
                  THEN Raise("ValidationError", "Input should be a valid number")
                ELSE Decimal(OptIntField(p), OptIntField(q), OptFloatField(x))
      [] cls = "Symbol" ->
            LET v == KwReq(kwargs, "s")
            IN  IF IsError(v) THEN v
                ELSE IF v.k = "str" THEN Symbol(v.s)
                ELSE Raise("TypeError", "Symbol name should be a string")
      [] cls = "Function" ->
            LET v == KwReq(kwargs, "name")
            IN  IF IsError(v) THEN v
                ELSE IF v.k = "str" THEN Function(v.s)
                ELSE Raise("TypeError", "Function name should be a string")
      [] cls = "Pi" -> Pi
      [] cls = "Inf" -> Inf
      [] cls \in {"Add", "Mul", "Equality", "StrictGreaterThan"} ->
            Binary(cls, KwReq(kwargs, "l"), KwReq(kwargs, "r"))
      [] cls = "Fraction" -> Fraction(KwReq(kwargs, "p"), KwReq(kwargs, "q"))
      [] cls = "Pow" -> Pow(KwReq(kwargs, "base"), KwReq(kwargs, "exp"))
      [] cls = "Interval" ->
            LET lo == KwOpt(kwargs, "left_open")
                ro == KwOpt(kwargs, "right_open")
            IN  IF lo.k # "bool" \/ ro.k # "bool"
                  THEN Raise("ValidationError", "Input should be a valid boolean")
                ELSE Interval(KwReq(kwargs, "l"), KwReq(kwargs, "r"), lo.b, ro.b)

Unsupported == Raise("ValueError", "Unsupported AST node type")

RECURSIVE _ast_to_maths_object(_)

\* the keyword arguments, each value converted
ConvertKeywords(class_name, keywords) ==
    [i \in 1..Len(keywords) |->
        IF class_name = "Function" /\ keywords[i].arg = "name"
           /\ keywords[i].value.k = "Name"
          THEN Keyword("name", PyStr(keywords[i].value.id))
        ELSE Keyword(keywords[i].arg, _ast_to_maths_object(keywords[i].value))]

ConvertAll(nodes) == [i \in 1..Len(nodes) |-> _ast_to_maths_object(nodes[i])]

KeywordValues(kwargs) == [i \in 1..Len(kwargs) |-> kwargs[i].value]

_ast_to_maths_object(node) ==
    IF node.k = "Call" THEN
        IF node.func.k = "Call" THEN
            LET function_obj == _ast_to_maths_object(node.func)
                pre_obj == IF Len(node.args) = 1 THEN _ast_to_maths_object(node.args[1])
                           ELSE MathsCollection(ConvertAll(node.args))
            IN  Image(function_obj, pre_obj)
        ELSE IF node.func.k # "Name"
          THEN Raise("ValueError", "Unsupported function call structure")
        ELSE IF node.func.id \notin ModuleClasses
          THEN Raise("ValueError", "Unknown MathsObject class")
        ELSE LET args == ConvertAll(node.args)
                 kwargs == ConvertKeywords(node.func.id, node.keywords)
             IN  IF AnyError(args) THEN FirstError(args)
                 ELSE IF AnyError(KeywordValues(kwargs))
                   THEN FirstError(KeywordValues(kwargs))
                 ELSE IF Len(args) > 0
                   THEN Raise("TypeError", "__init__() takes 1 positional argument")
                 ELSE Construct(node.func.id, kwargs)
    ELSE IF node.k = "Constant" THEN node.value
    ELSE IF node.k = "UnaryOp" /\ node.operand.k = "Constant" THEN
        IF node.operand.value.k = "int" THEN PyInt(-node.operand.value.n)
        ELSE IF node.operand.value.k = "float"
          THEN PyFloat(<<-node.operand.value.v[1], node.operand.value.v[2]>>)
        ELSE Raise("TypeError", "bad operand type for unary -")
    ELSE Unsupported

\* from_repr applied to the text repr_str (held as its parse)
from_repr(repr_str) ==
    LET obj == _ast_to_maths_object(repr_str)
    IN  IF IsError(obj)
          THEN Raise("ValueError", "Failed to parse representation")
        ELSE obj

(* ------------------------------------------------------------------ *)
(* compute_sympy_expr: the backend call each constructor makes, with   *)
(* the evaluate flag it passes (sympy's default is to evaluate).       *)
(* ------------------------------------------------------------------ *)
SympyCall(f, evaluate) == [f |-> f, evaluate |-> evaluate]

compute_sympy_expr(self) ==
    CASE self.k = "Integer" -> SympyCall("sp.Integer", TRUE)
      [] self.k = "Decimal" -> SympyCall("sp.Rational", TRUE)
      [] self.k = "Symbol" -> SympyCall("sp.Symbol", TRUE)
      [] self.k = "Pi" -> SympyCall("sp.pi", TRUE)
      [] self.k = "Inf" -> SympyCall("sp.oo", TRUE)
      [] self.k = "Add" -> SympyCall("sp.Add", FALSE)
      [] self.k = "Mul" -> SympyCall("sp.Mul", FALSE)
      [] self.k = "Fraction" ->
            IF self.p.k = "Integer" /\ self.q.k = "Integer"
              THEN SympyCall("sp.Rational", TRUE)
            ELSE SympyCall("sp.Mul", TRUE)
      [] self.k = "Pow" -> SympyCall("sp.Pow", FALSE)
      [] self.k = "Equality" -> SympyCall("sp.Equality", FALSE)
      [] self.k = "StrictGreaterThan" -> SympyCall("sp.StrictGreaterThan", FALSE)
      [] self.k = "Interval" -> SympyCall("sp.Interval", TRUE)
      [] self.k = "Image" -> SympyCall("sp.Function", TRUE)

(* ------------------------------------------------------------------ *)
(* Trees                                                               *)
(* ------------------------------------------------------------------ *)
\* the children of a node, left to right
Children(v) ==
    CASE v.k \in {"Add", "Mul", "Equality", "StrictGreaterThan", "Interval"} -> <<v.l, v.r>>
      [] v.k = "Fraction" -> <<v.p, v.q>>
      [] v.k = "Pow" -> <<v.base, v.exp>>
      [] v.k = "Image" -> <<v.pre>>
      [] v.k = "MathsCollection" -> v.elements
      [] OTHER -> <<>>

RECURSIVE Depth(_)
Depth(v) ==
    LET c == Children(v)
    IN  IF c = <<>> THEN 0
        ELSE 1 + (CHOOSE d \in {Depth(c[i]) : i \in 1..Len(c)} :
                    \A j \in 1..Len(c) : Depth(c[j]) <= d)

\* v and everything below it
RECURSIVE Subterms(_)
Subterms(v) ==
    LET c == Children(v)
    IN  {v} \cup UNION {Subterms(c[i]) : i \in 1..Len(c)}

\* a value node of the arithmetic families
IsValue(v) ==
    v.k \in {"Integer", "Decimal", "Symbol", "Pi", "Inf", "Add", "Mul", "Fraction", "Pow"}

\* a tree every node of which the repository's code decided
Known(v) == (IsMathsObject(v) \/ v.k = "MathsCollection")
            /\ \A t \in Subterms(v) : t.k # "Backend"

(* ------------------------------------------------------------------ *)
(* The client: it holds one tree, expr, builds on it with the          *)
(* constructors and operator overloads, and calls simplified() and     *)
(* from_repr(repr()) on it; result is what the last call returned or   *)
(* raised, op the call and its operands.                               *)
(* ------------------------------------------------------------------ *)
Ints == -MaxInt..MaxInt

Atoms ==
    {Integer(n) : n \in Ints}
    \cup {DecimalX(<<0, 1>>), DecimalX(<<1, 2>>), DecimalPQ(1, 2)}
    \cup {Symbol("x"), Symbol("y"), Pi, Inf}

Call(name, args) == [name |-> name, args |-> args]

Init ==
    /\ expr \in Atoms
    /\ result = expr
    /\ op = Call("new", <<>>)

\* what the client holds after a call: the new tree, or the old one when it raised
Held(new) == IF IsError(new) THEN expr ELSE new

NewAtom ==
    \E a \in Atoms :
        /\ expr' = a
        /\ result' = a
        /\ op' = Call("new", <<>>)

Constructors == {"Add", "Mul", "Fraction", "Pow"}

Build(cls, l, r) ==
    CASE cls = "Add" -> Add(l, r)
      [] cls = "Mul" -> Mul(l, r)
      [] cls = "Fraction" -> Fraction(l, r)
      [] cls = "Pow" -> Pow(l, r)

\* the client wraps its tree and an atom in a constructor
Combine ==
    /\ IsValue(expr)
    /\ Depth(expr) < MaxDepth
    /\ \E cls \in Constructors, a \in Atoms, side \in {"l", "r"} :
         LET l == IF side = "l" THEN expr ELSE a
             r == IF side = "l" THEN a ELSE expr
             new == Build(cls, l, r)
         IN  /\ expr' = Held(new)
             /\ result' = new
             /\ op' = Call(cls, <<l, r>>)

Simplify ==
    /\ op.name # "simplified"
    /\ expr' = expr
    /\ result' = simplified(expr)
    /\ op' = Call("simplified", <<expr>>)

RoundTrip ==
    /\ op.name # "from_repr"
    /\ expr' = expr
    /\ result' = from_repr(repr(expr))
    /\ op' = Call("from_repr", <<expr>>)

Wrappers == {"Equality", "StrictGreaterThan", "Interval", "Image", "ImageOfCollection"}

\* the client states a relation, an interval or an image over its tree
Wrap ==
    /\ IsValue(expr)
    /\ Depth(expr) < BuildDepth
    /\ \E w \in Wrappers, a \in Atoms, lo \in BOOLEAN, ro \in BOOLEAN :
         LET new == CASE w = "Equality" -> Equality(expr, a)
                      [] w = "StrictGreaterThan" -> StrictGreaterThan(expr, a)
                      [] w = "Interval" -> Interval(expr, a, lo, ro)
                      [] w = "Image" -> Image(Function("f"), expr)
                      [] w = "ImageOfCollection" ->
                            Image(Function("f"), MathsCollection(<<expr, a>>))
         IN  /\ expr' = Held(new)
             /\ result' = new
             /\ op' = Call(w, <<expr, a>>)

Operators == {"__add__", "__sub__", "__mul__", "__truediv__", "__pow__", "__gt__", "__lt__"}

Overload(name, self, other) ==
    CASE name = "__add__" -> __add__(self, other)
      [] name = "__sub__" -> __sub__(self, other)
      [] name = "__mul__" -> __mul__(self, other)
      [] name = "__truediv__" -> __truediv__(self, other)
      [] name = "__pow__" -> __pow__(self, other)
      [] name = "__gt__" -> __gt__(self, other)
      [] name = "__lt__" -> __lt__(self, other)

\* the client writes  expr <operator> atom  or  atom <operator> expr
Operate ==
    /\ IsValue(expr)
    /\ Depth(expr) < BuildDepth
    /\ \E name \in Operators, a \in Atoms, side \in {"l", "r"} :
         LET self == IF side = "l" THEN expr ELSE a
             other == IF side = "l" THEN a ELSE expr
             new == Overload(name, self, other)
         IN  /\ expr' = Held(new)
             /\ result' = new
             /\ op' = Call(name, <<self, other>>)

\* the client writes  -expr
Negate ==
    /\ IsValue(expr)
    /\ Depth(expr) <= BuildDepth
    /\ expr' = Held(__neg__(expr))
    /\ result' = __neg__(expr)
    /\ op' = Call("__neg__", <<expr>>)

\* the ints a client passes to Fraction(p=..., q=...)
IntOperands == {PyInt(n) : n \in -MaxFrac..MaxFrac}

\* the client writes  Fraction(p=p, q=q)  of two ints
FractionOf ==
    /\ Depth(expr) < BuildDepth
    /\ \E p \in IntOperands, q \in IntOperands :
         /\ expr' = Held(Fraction(p, q))
         /\ result' = Fraction(p, q)
         /\ op' = Call("Fraction", <<p, q>>)

Next == NewAtom \/ Combine \/ Wrap \/ Simplify \/ RoundTrip

Spec == Init /\ [][Next]_vars

\* a client that only builds trees with the operator overloads
NextOperators == NewAtom \/ Operate \/ Negate \/ FractionOf

SpecOperators == Init /\ [][NextOperators]_vars

\* a client that builds fractions of integers and simplifies them
NextFraction == FractionOf \/ Simplify

SpecFraction == Init /\ [][NextFraction]_vars

(* ------------------------------------------------------------------ *)
(* Properties                                                          *)
(* ------------------------------------------------------------------ *)
Simplified == op.name = "simplified"

HasBackend(v) == \E t \in Subterms(v) : t.k = "Backend"

IsIntegerFraction(t) == t.k = "Fraction" /\ t.p.k = "Integer" /\ t.q.k = "Integer"

\* a tree of Integer, Decimal and Integer-fraction atoms under Add and Mul only
RECURSIVE NumericOnly(_)
NumericOnly(t) ==
    \/ t.k \in {"Integer", "Decimal"}
    \/ IsIntegerFraction(t)
    \/ t.k \in {"Add", "Mul"} /\ NumericOnly(t.l) /\ NumericOnly(t.r)

ZeroDenominator == Raise("ValidationError", "Denominator cannot be zero")

\* C1: simplifying Fraction(p=p, q=q) built from two ints with q # 0 gives
\* an Integer, or a Fraction of two Integers with gcd 1, a denominator that
\* is not negative and not 1.
C1_FractionCanonical ==
    (Simplified /\ expr.k = "Fraction") =>
        \/ result.k = "Integer"
        \/ /\ IsIntegerFraction(result)
           /\ Gcd(result.p.n, result.q.n) = 1
           /\ result.q.n >= 0
           /\ result.q.n # 1

\* C1 witness: a fraction with a common factor and a negative denominator
\* was simplified to a fraction.
C1_Witness ==
    /\ Simplified
    /\ expr.k = "Fraction"
    /\ Gcd(expr.p.n, expr.q.n) > 1
    /\ expr.q.n < 0
    /\ result.k = "Fraction"

\* C2: simplifying the result of a simplification again, when both are
\* decided by the explicit rules, returns the same tree.
C2_Idempotent ==
    (Simplified /\ Known(result) /\ Known(simplified(result))) =>
        simplified(result) = result

\* C3: simplified() never raises for want of a matching rule.
C3_NeverUnhandled ==
    Simplified => ~(IsError(result) /\ result.type = "NotImplementedError")

\* C4: simplified() of a constructed tree never raises a construction-time
\* validation error.
C4_NoValidationError ==
    Simplified => ~(IsError(result) /\ result.type = "ValidationError")

\* C5: from_repr(repr(n)) succeeds and equals n for every constructed node n.
C5_RoundTrip ==
    op.name = "from_repr" => result = expr

\* C6: when a tree evaluates to a number, its simplified form evaluates to
\* the same number.
C6_ValuePreserved ==
    (Simplified /\ eval(expr).k = "num" /\ IsRational(eval(expr).v) /\ ~HasBackend(result)) =>
        eval(result) = eval(expr)

\* C7: every Fraction of two Integers in a simplified tree is in lowest
\* terms with a positive denominator.
C7_FractionsCanonical ==
    (Simplified /\ Known(result)) =>
        \A t \in Subterms(result) :
            IsIntegerFraction(t) => (Gcd(t.p.n, t.q.n) = 1 /\ t.q.n > 0)

\* C8: a simplified tree has no Add or Mul over two Integers, and no Add or
\* Mul subtree made of numeric atoms only.
C8_NumericCollapsed ==
    (Simplified /\ Known(result)) =>
        \A t \in Subterms(result) : t.k \in {"Add", "Mul"} => ~NumericOnly(t)

C10_NoZeroDenominator ==
    /\ \A t \in Subterms(expr) \cup Subterms(result) :
          t.k = "Fraction" => t.q # Integer(0)
    /\ (op.name \in {"Fraction", "__truediv__"}
          /\ op.args[2] \in {PyInt(0), Integer(0)}) => result = ZeroDenominator

\* C10 witness: a division by Integer(0) was attempted and rejected, and
\* the client still holds its tree.
C10_Witness ==
    /\ op.name = "__truediv__"
    /\ op.args[2] = Integer(0)
    /\ IsError(result)
    /\ expr = op.args[1]

(* ------------------------------------------------------------------ *)
(* A client that constructs Decimals from optional arguments            *)
(* ------------------------------------------------------------------ *)
\* the values a client passes for p and q: None or an int (q never 0)
OptInts == {PyNone} \cup {PyInt(n) : n \in Ints}

OptDenominators == {PyNone} \cup {PyInt(n) : n \in Ints \ {0}}

\* the values a client passes for x: None or a float
OptFloats == {PyNone, PyFloat(<<0, 1>>), PyFloat(<<1, 2>>), PyFloat(<<-3, 2>>)}

\* the client writes  Decimal(p=p, q=q, x=x)
DecimalOf ==
    \E p \in OptInts, q \in OptDenominators, x \in OptFloats :
        LET new == Decimal(OptIntField(p), OptIntField(q), OptFloatField(x))
        IN  /\ expr' = Held(new)
            /\ result' = new
            /\ op' = Call("Decimal", <<p, q, x>>)

NextDecimal == NewAtom \/ DecimalOf

SpecDecimal == Init /\ [][NextDecimal]_vars

\* C11: Decimal(p, q, x) is constructed exactly when x alone is supplied, or
\* p and q are both supplied without x.
C11_ExactlyOneForm ==
    op.name = "Decimal" =>
        LET has_p == ~IsNone(op.args[1])
            has_q == ~IsNone(op.args[2])
            has_x == ~IsNone(op.args[3])
        IN  ~IsError(result) <=>
                \/ has_x /\ ~has_p /\ ~has_q
                \/ ~has_x /\ has_p /\ has_q

(* ------------------------------------------------------------------ *)
(* A client that multiplies two sums and simplifies the product        *)
(* ------------------------------------------------------------------ *)
\* the tree with every Symbol replaced by the Integer env gives it
RECURSIVE Subst(_, _)
Subst(v, env) ==
    CASE v.k = "Symbol" -> Integer(env[v.s])
      [] v.k \in {"Add", "Mul"} -> [v EXCEPT !.l = Subst(v.l, env), !.r = Subst(v.r, env)]
      [] v.k = "Fraction" -> [v EXCEPT !.p = Subst(v.p, env), !.q = Subst(v.q, env)]
      [] v.k = "Pow" -> [v EXCEPT !.base = Subst(v.base, env), !.exp = Subst(v.exp, env)]
      [] v.k = "Backend" -> [v EXCEPT !.of = Subst(v.of, env)]
      [] OTHER -> v

\* the substitutions of numbers for the symbols x and y
Envs == [{"x", "y"} -> Ints]

\* the client writes  (a + b) * (c + d)
MultiplySums ==
    /\ Depth(expr) < BuildDepth
    /\ \E a \in Atoms, b \in Atoms, c \in Atoms, d \in Atoms :
         LET new == __mul__(__add__(a, b), __add__(c, d))
         IN  /\ expr' = Held(new)
             /\ result' = new
             /\ op' = Call("__mul__", <<__add__(a, b), __add__(c, d)>>)

NextSums == MultiplySums \/ Simplify

SpecSums == Init /\ [][NextSums]_vars

\* C12: when both operands of a Mul simplify to Add nodes, the simplified
\* product evaluates, under every substitution for which the product
\* evaluates, to the value of the product.
C12_ExpansionPreservesValue ==
    (Simplified /\ expr.k = "Mul"
        /\ simplified(expr.l).k = "Add" /\ simplified(expr.r).k = "Add") =>
        \A env \in Envs :
            LET v == eval(Subst(expr, env))
            IN  (v.k = "num" /\ IsRational(v.v)) => eval(Subst(result, env)) = v

(* ------------------------------------------------------------------ *)
(* A client that raises an Integer to an Integer power, simplifies     *)
(* and reads as_decimal                                                 *)
(* ------------------------------------------------------------------ *)
\* the as_decimal property of Fraction; pydantic accepts for an int field
\* only a number without fractional part
as_decimal(self) ==
    IF self.k = "Fraction" THEN
        LET p == eval(self.p)
            q == eval(self.q)
        IN  IF AnyError(<<p, q>>) THEN FirstError(<<p, q>>)
            ELSE IF ~RatIsInteger(p.v) \/ ~RatIsInteger(q.v)
              THEN Raise("ValidationError", "Input should be a valid integer")
            ELSE DecimalPQ(p.v[1], q.v[1])
    ELSE Raise("AttributeError", "object has no attribute 'as_decimal'")

\* the client writes  Integer(n=b) ** Integer(n=e)
PowOf ==
    /\ Depth(expr) < BuildDepth
    /\ \E b \in -MaxFrac..MaxFrac, e \in -MaxFrac..MaxFrac :
         LET new == __pow__(Integer(b), Integer(e))
         IN  /\ expr' = Held(new)
             /\ result' = new
             /\ op' = Call("__pow__", <<Integer(b), Integer(e)>>)

\* the client reads  .as_decimal  of the simplified tree
AsDecimal ==
    /\ Simplified
    /\ result.k = "Fraction"
    /\ expr' = expr
    /\ result' = as_decimal(result)
    /\ op' = Call("as_decimal", <<result>>)

NextPow == PowOf \/ Simplify \/ AsDecimal

SpecPow == Init /\ [][NextPow]_vars

\* C13: for Integer b # 0 and Integer e < 0, Pow(b, e).simplified() is
\* Fraction(Integer(1), Integer(b^(-e))), and the as_decimal of that
\* fraction evaluates to b^e.
C13_NegativeExponent ==
    (expr.k = "Pow" /\ expr.base.n # 0 /\ expr.exp.n < 0) =>
        LET power == IntPow(expr.base.n, -expr.exp.n)
            reciprocal == [k |-> "Fraction", p |-> [k |-> "Integer", n |-> 1],
                           q |-> [k |-> "Integer", n |-> power]]
        IN  /\ Simplified => result = reciprocal
            /\ op.name = "as_decimal" =>
                  /\ op.args[1] = reciprocal
                  /\ result.k = "Decimal"
                  /\ eval(result) = Num(Rat(1, power))

\* C13 witness: a negative base under an exponent below -1 was simplified
\* and its as_decimal was read.
C13_Witness ==
    /\ op.name = "as_decimal"
    /\ expr.k = "Pow"
    /\ expr.base.n < 0
    /\ expr.exp.n < -1
    /\ result.k = "Decimal"

(* ------------------------------------------------------------------ *)
(* A client that multiplies a numeric coefficient and a non-numeric    *)
(* factor, in either order, and simplifies                              *)
(* ------------------------------------------------------------------ *)
Coefficients ==
    {Integer(n) : n \in Ints \ {0}}
        \cup {DecimalX(<<1, 2>>), DecimalPQ(1, 2), Fraction(PyInt(1), PyInt(2))}

Factors ==
    {Symbol("x"), Pi, Pow(Symbol("x"), Integer(2)),
     Image(Function("f"), Symbol("x")), Image(Function("f"), Pi)}

\* the client writes  Mul(l=c, r=t)  or  Mul(l=t, r=c)
MulOf ==
    \E c \in Coefficients, t \in Factors, coefficient_first \in BOOLEAN :
        LET l == IF coefficient_first THEN c ELSE t
            r == IF coefficient_first THEN t ELSE c
        IN  /\ expr' = Mul(l, r)
            /\ result' = Mul(l, r)
            /\ op' = Call("Mul", <<l, r>>)

NextMul == MulOf \/ Simplify

SpecMul == Init /\ [][NextMul]_vars

\* C14: when Mul.simplified() returns a Mul of one numeric coefficient
\* (Integer, Decimal, Fraction) and one non-numeric factor (Symbol, Pow,
\* Image, Pi), the coefficient is the left operand, and the result does
\* not depend on the operand order of the input.
C14_CoefficientLeft ==
    LET Numeric(v) == v.k \in {"Integer", "Decimal", "Fraction"}
        NonNumeric(v) == v.k \in {"Symbol", "Pow", "Image", "Pi"}
        swapped == simplified(Mul(expr.r, expr.l))
    IN  (Simplified /\ expr.k = "Mul" /\ result.k = "Mul") =>
            /\ (Numeric(result.r) /\ NonNumeric(result.l)) => FALSE
            /\ (~IsBackend(result) /\ ~IsBackend(swapped)) => swapped = result

(* ------------------------------------------------------------------ *)
(* group_terms.  The backend's expanded expressions are held as        *)
(* polynomials: level 0 is a rational, level n+1 a sequence of         *)
(* level-n coefficients, lowest power first, the last one not zero.    *)
(* Level 2 is a polynomial in the symbol x whose coefficients are      *)
(* polynomials in Euler's number e, a constant of the backend.         *)
(* ------------------------------------------------------------------ *)
PolyZero(level) == IF level = 0 THEN <<0, 1>> ELSE <<>>

RECURSIVE PolyTrim(_, _)
PolyTrim(level, a) ==
    IF a = <<>> THEN a
    ELSE IF a[Len(a)] = PolyZero(level - 1) THEN PolyTrim(level, SubSeq(a, 1, Len(a) - 1))
    ELSE a

RECURSIVE PolyAdd(_, _, _)
PolyAdd(level, a, b) ==
    IF level = 0 THEN RatAdd(a, b)
    ELSE LET at(s, i) == IF i <= Len(s) THEN s[i] ELSE PolyZero(level - 1)
             n == IF Len(a) > Len(b) THEN Len(a) ELSE Len(b)
         IN  PolyTrim(level, [i \in 1..n |-> PolyAdd(level - 1, at(a, i), at(b, i))])

RECURSIVE PolyMul(_, _, _)
PolyMul(level, a, b) ==
    IF level = 0 THEN RatMul(a, b)
    ELSE IF a = <<>> \/ b = <<>> THEN <<>>
    ELSE LET term(i, j) ==
                 IF i - j + 1 >= 1 /\ i - j + 1 <= Len(b)
                   THEN PolyMul(level - 1, a[j], b[i - j + 1])
                 ELSE PolyZero(level - 1)
             RECURSIVE sum(_, _)
             sum(i, j) == IF j = 0 THEN PolyZero(level - 1)
                          ELSE PolyAdd(level - 1, sum(i, j - 1), term(i, j))
         IN  PolyTrim(level, [i \in 1..(Len(a) + Len(b) - 1) |-> sum(i, Len(a))])

\* sp.expand(sp.sympify(str(tree.sympy_expr))): the text is parsed in the
\* backend's namespace, where the name E is Euler's number and no symbol
RECURSIVE completely_flatten(_)
completely_flatten(tree) ==
    LET number(r) == IF RatIsZero(r) THEN <<>> ELSE << <<r>> >>
        RECURSIVE power(_, _)
        power(a, n) == IF n = 0 THEN number(<<1, 1>>)
                       ELSE PolyMul(2, a, power(a, n - 1))
    IN  CASE tree.k = "Integer" -> number(RatOfInt(tree.n))
          [] tree.k = "Fraction" /\ IsIntegerFraction(tree) -> number(Rat(tree.p.n, tree.q.n))
          [] tree.k = "Symbol" /\ tree.s = "E" -> << <<<<0, 1>>, <<1, 1>>>> >>
          [] tree.k = "Symbol" /\ tree.s # "E" -> << <<>>, <<<<1, 1>>>> >>
          [] tree.k = "Add" ->
                PolyAdd(2, completely_flatten(tree.l), completely_flatten(tree.r))
          [] tree.k = "Mul" ->
                PolyMul(2, completely_flatten(tree.l), completely_flatten(tree.r))
          [] tree.k = "Pow" /\ tree.exp.k = "Integer" /\ tree.exp.n >= 0 ->
                power(completely_flatten(tree.base), tree.exp.n)

\* a translation that writes the rational p/q as Fraction(q, p)
from_sympy_number_inverted(c) ==
    IF Len(c) > 1
      THEN Raise("NotImplementedError", "Conversion from sympy type Exp1 is not implemented")
    ELSE IF c = <<>> THEN Integer(0)
    ELSE IF RatIsInteger(c[1]) THEN Integer(c[1][1])
    ELSE Fraction(Integer(c[1][2]), Integer(c[1][1]))

\* MathsObjectParser.from_sympy on a constant of the backend: a polynomial
\* in e of degree 0
from_sympy_number(c) ==
    IF Len(c) > 1
      THEN Raise("NotImplementedError", "Conversion from sympy type Exp1 is not implemented")
    ELSE IF c = <<>> THEN Integer(0)
    ELSE IF RatIsInteger(c[1]) THEN Integer(c[1][1])
    ELSE Fraction(Integer(c[1][1]), Integer(c[1][2]))

\* MathsObjectParser.from_sympy on  coeff,  coeff * sym  or  coeff * sym**power
from_sympy_term(coeff, sym, power) ==
    LET c == from_sympy_number(coeff)
        monomial == IF power = 1 THEN Symbol(sym) ELSE Pow(Symbol(sym), Integer(power))
    IN  IF IsError(c) \/ power = 0 THEN c
        ELSE IF c = Integer(1) THEN monomial
        ELSE Mul(c, monomial)

\* MathsObjectParser.from_sympy on  sp.Add(*terms, evaluate=False)
RECURSIVE from_sympy_sum(_)
from_sympy_sum(terms) ==
    IF Len(terms) = 1 THEN terms[1]
    ELSE Add(terms[1], from_sympy_sum(Tail(terms)))

\* the body of group_terms, under its try
group_terms_try(tree, symbol) ==
    LET expanded == completely_flatten(tree)
        target_symbols == IF ~IsNone(symbol) THEN <<symbol.s>>
                          ELSE IF Len(expanded) > 1 THEN <<"x">>
                          ELSE <<>>
        constant == IF expanded = <<>> THEN <<>> ELSE expanded[1]
        RECURSIVE rebuilt(_)
        \* the terms of the powers below n, highest first
        rebuilt(n) ==
            IF n = 0 THEN <<>>
            ELSE IF expanded[n] = <<>> THEN rebuilt(n - 1)
            ELSE <<from_sympy_term(expanded[n], target_symbols[1], n - 1)>> \o rebuilt(n - 1)
    IN  IF ~IsMathsObject(tree) THEN NoSympyExpr(tree)
        ELSE IF target_symbols = <<>> THEN from_sympy_number(constant)
        ELSE IF expanded = <<>>
          THEN Raise("TypeError", "'NegativeInfinity' object cannot be interpreted as an integer")
        ELSE LET terms == rebuilt(Len(expanded))
             IN  IF AnyError(terms) THEN FirstError(terms) ELSE from_sympy_sum(terms)

\* a group_terms that lets the exception of a backend step through
group_terms_reraising(tree, symbol) == group_terms_try(tree, symbol)

\* group_terms(expr, symbol):  except Exception: return expr
group_terms(tree, symbol) ==
    LET grouped == group_terms_try(tree, symbol)
    IN  IF IsError(grouped) THEN tree ELSE grouped

\* the leaves the client builds its polynomials from
Terms ==
    {Integer(-1), Integer(2), Fraction(PyInt(1), PyInt(2)),
     Symbol("x"), Symbol("E"), Pow(Symbol("x"), Integer(2))}

\* the client starts a new polynomial
NewTerm ==
    \E a \in Terms :
        /\ expr' = a
        /\ result' = a
        /\ op' = Call("new", <<a>>)

\* the client adds a term to its polynomial, or multiplies it by one
AddTerm ==
    /\ op.name \in {"new", "Add", "Mul"}
    /\ op.args # <<>>
    /\ Depth(expr) < MaxDepth
    /\ \E cls \in {"Add", "Mul"}, a \in Terms, left \in BOOLEAN :
         LET l == IF left THEN a ELSE expr
             r == IF left THEN expr ELSE a
         IN  /\ expr' = Build(cls, l, r)
             /\ result' = expr'
             /\ op' = Call(cls, <<l, r>>)

\* the client calls group_terms(expr) or group_terms(expr, Symbol(s="x"))
GroupTerms ==
    /\ op.name \in {"new", "Add", "Mul"}
    /\ op.args # <<>>
    /\ \E symbol \in {PyNone, Symbol("x")} :
         /\ expr' = expr
         /\ result' = group_terms(expr, symbol)
         /\ op' = Call("group_terms", <<expr, symbol>>)

NextGroup == NewTerm \/ AddTerm \/ GroupTerms

SpecGroup == Init /\ [][NextGroup]_vars

\* C15: group_terms never raises: it returns a tree, and when a backend
\* step fails (the degree of the zero polynomial, the translation of a
\* constant from_sympy has no case for) it returns the input tree itself.
C15_NeverRaises ==
    op.name = "group_terms" =>
        /\ ~IsError(result)
        /\ IsMathsObject(result)
        /\ IsError(group_terms_try(op.args[1], op.args[2])) => result = op.args[1]

\* C15 witness: a backend step failed inside group_terms and the call
\* returned its input.
C15_Witness ==
    /\ op.name = "group_terms"
    /\ IsError(group_terms_try(op.args[1], op.args[2]))
    /\ result = expr
    /\ expr.k = "Add"

C17_DescendingDegrees ==
    LET names == {t.s : t \in {u \in Subterms(expr) : u.k = "Symbol"}}
        RECURSIVE chain(_)
        chain(t) == IF t.k = "Add" THEN <<t.l>> \o chain(t.r) ELSE <<t>>
        monomial(t) == CASE t.k = "Symbol" -> 1
                         [] t.k = "Pow" /\ t.base.k = "Symbol" /\ t.exp.k = "Integer" -> t.exp.n
                         [] OTHER -> -1
        number(t) == (t.k = "Integer" /\ t.n # 0) \/ (IsIntegerFraction(t) /\ t.p.n # 0)
        degree(t) == IF number(t) THEN 0
                     ELSE IF t.k = "Mul" /\ number(t.l) THEN monomial(t.r)
                     ELSE monomial(t)
        \* the tree of the empty sum is Integer(0)
        terms == IF result = Integer(0) THEN <<>> ELSE chain(result)
    IN  (op.name = "group_terms" /\ Cardinality(names) = 1) =>
            /\ \A i \in 1..Len(terms) : degree(terms[i]) >= 0
            /\ \A i \in 1..(Len(terms) - 1) : degree(terms[i]) > degree(terms[i + 1])
            /\ \A env \in [names -> Ints] :
                   eval(Subst(result, env)) = eval(Subst(expr, env))

(* ------------------------------------------------------------------ *)
(* latex().  The text is held as the sequence of its pieces; a minus   *)
(* sign that starts a piece of text is a piece of its own, so that     *)
(* text.startswith("-") is  text[1] = "-".                              *)
(* ------------------------------------------------------------------ *)
RECURSIVE latex(_)

\* an Add.latex without the case of a negated Add, Fraction or Mul
Add_latex_default(self) ==
    LET left == latex(self.l)
        right == latex(self.r)
    IN  IF right[1] = "-" THEN left \o <<" ">> \o right
        ELSE left \o <<" + ">> \o right

Add_latex(self) ==
    LET left == latex(self.l)
        _is_complex_expression(e) ==
            e.k \in {"Add", "Fraction"} \/ (e.k = "Mul" /\ ~IsInteger(e.l, -1))
    IN  IF self.r.k = "Mul" /\ IsInteger(self.r.l, -1) /\ _is_complex_expression(self.r.r)
          THEN left \o <<" - ", "\\left(">> \o latex(self.r.r) \o <<"\\right)">>
        ELSE LET right == latex(self.r)
             IN  IF right[1] = "-" THEN left \o <<" ">> \o right
                 ELSE left \o <<" + ">> \o right

Mul_latex(self) ==
    LET l == self.l
        r == self.r
        Number(v) == v.k \in {"Integer", "Decimal", "Fraction"}
        parenthesised(v) == IF v.k = "Add" THEN <<"\\left(">> \o latex(v) \o <<"\\right)">>
                            ELSE latex(v)
    IN  IF IsInteger(l, -1) THEN <<"-">> \o latex(r)
        ELSE IF Number(l) /\ r.k \in {"Symbol", "Pow"} THEN
            IF IsInteger(l, 1) THEN latex(r) ELSE latex(l) \o latex(r)
        ELSE IF l.k \in {"Integer", "Decimal"} /\ r.k \in {"Integer", "Decimal"}
          THEN latex(l) \o <<" \\times ">> \o latex(r)
        ELSE IF l.k = "Fraction" /\ r.k = "Fraction"
          THEN latex(l) \o <<" \\times ">> \o latex(r)
        ELSE IF l.k \in {"Mul", "Add"} /\ r.k \in {"Mul", "Add"}
          THEN parenthesised(l) \o <<" \\times ">> \o parenthesised(r)
        ELSE IF l.k \in {"Fraction", "Add"} /\ r.k \in {"Fraction", "Add"}
          THEN parenthesised(l) \o <<" \\times ">> \o parenthesised(r)
        ELSE latex(l) \o latex(r)

latex(self) ==
    LET \* str(n) of an int
        int(n) == IF n < 0 THEN <<"-", ToString(-n)>> ELSE <<ToString(n)>>
        \* str(x) of a float with a fractional part, for the halves
        \* (digits after the point: exact for hundredths, else the shortest
        \* digits that read back as the float, held as one piece)
        float(x) == LET a == Abs(x[1])
                        whole == IntDiv(a - (a % x[2]), x[2])
                        rest == a % x[2]
                        hundredths == IntDiv(rest * 100, x[2])
                        digits == IF 100 % x[2] # 0
                                    THEN "digits(" \o ToString(rest) \o "/" \o ToString(x[2]) \o ")"
                                  ELSE IF hundredths % 10 = 0 THEN ToString(IntDiv(hundredths, 10))
                                  ELSE IF hundredths < 10 THEN "0" \o ToString(hundredths)
                                  ELSE ToString(hundredths)
                        text == <<ToString(whole), ".", digits>>
                    IN  IF x[1] < 0 THEN <<"-">> \o text ELSE text
        RECURSIVE join(_)
        join(elements) ==
            IF Len(elements) = 1 THEN latex(elements[1])
            ELSE latex(elements[1]) \o <<", ">> \o join(Tail(elements))
    IN  CASE self.k = "Integer" -> int(self.n)
          [] self.k = "Decimal" ->
                LET value == DecimalValue(self)
                IN  IF ~IsRational(value) THEN <<"float", ".", "digits">>
                    ELSE IF RatIsInteger(value) THEN int(value[1]) ELSE float(value)
          [] self.k = "Symbol" -> <<self.s>>
          [] self.k = "Pi" -> <<"\\pi">>
          [] self.k = "Inf" -> <<"\\infty">>
          [] self.k = "MathsCollection" ->
                <<"\\left(">> \o join(self.elements) \o <<"\\right)">>
          [] self.k = "Image" -> <<self.f.name, "(">> \o latex(self.pre) \o <<")">>
          [] self.k = "Add" -> Add_latex(self)
          [] self.k = "Mul" -> Mul_latex(self)
          [] self.k = "Fraction" ->
                IF self.p.k = "Integer" /\ self.p.n < 0
                  THEN <<"-", "\\dfrac{">> \o latex(__neg__(self.p)) \o <<"}{">>
                           \o latex(self.q) \o <<"}">>
                ELSE <<"\\dfrac{">> \o latex(self.p) \o <<"}{">> \o latex(self.q) \o <<"}">>
          [] self.k = "Pow" ->
                IF IsIntegerFraction(self.exp) /\ self.exp.p.n = 1 /\ self.exp.q.n = 2
                  THEN <<"\\sqrt{">> \o latex(self.base) \o <<"}">>
                ELSE (IF self.base.k \in {"Add", "Mul", "Fraction"}
                        THEN <<"\\left(">> \o latex(self.base) \o <<"\\right)">>
                      ELSE latex(self.base))
                     \o <<"^{">> \o latex(self.exp) \o <<"}">>
          [] self.k = "Equality" -> latex(self.l) \o <<" = ">> \o latex(self.r)
          [] self.k = "StrictGreaterThan" -> latex(self.l) \o <<" > ">> \o latex(self.r)
          \* an object the backend rebuilt renders as a text of its own
          [] self.k = "Backend" -> <<"sympy(">> \o latex(self.of) \o <<")">>
          [] self.k = "Interval" ->
                <<"\\lbracket ">> \o latex(self.l) \o <<"; ">> \o latex(self.r)
                    \o <<"\\rbracket">>

\* the operands the client combines its tree with before rendering
LatexAtoms == {Integer(-1), Integer(2), DecimalX(<<1, 2>>), Symbol("x")}

\* the client wraps its tree and an operand in a constructor
Compose ==
    /\ IsValue(expr)
    /\ op.name = "new"
    /\ Depth(expr) < BuildDepth
    /\ \E cls \in Constructors, a \in LatexAtoms, left \in BOOLEAN :
         LET l == IF left THEN a ELSE expr
             r == IF left THEN expr ELSE a
             new == Build(cls, l, r)
         IN  /\ expr' = Held(new)
             /\ result' = new
             /\ op' = Call(cls, <<l, r>>)

\* the client writes  Mul(l=a, r=expr)  or  Mul(l=expr, r=a)
Times ==
    /\ op.name \in Constructors
    /\ \E a \in LatexAtoms, left \in BOOLEAN :
         LET l == IF left THEN a ELSE expr
             r == IF left THEN expr ELSE a
         IN  /\ expr' = Mul(l, r)
             /\ result' = Mul(l, r)
             /\ op' = Call("Times", <<l, r>>)

\* the client writes  a - expr
Subtract ==
    /\ op.name \in Constructors
    /\ \E a \in LatexAtoms :
         LET new == __sub__(a, expr)
         IN  /\ expr' = new
             /\ result' = new
             /\ op' = Call("__sub__", <<a, expr>>)

\* the client calls  expr.latex()
Latex ==
    /\ op.name # "latex"
    /\ expr' = expr
    /\ result' = latex(expr)
    /\ op' = Call("latex", <<expr>>)

NextLatex == NewAtom \/ Compose \/ Times \/ Subtract \/ Wrap \/ Latex

SpecLatex == Init /\ [][NextLatex]_vars

\* C18: an Add whose right child is Mul(Integer(-1), inner), inner an Add,
\* a Fraction or a Mul not led by Integer(-1), renders as
\* <left> - \left(<inner>\right): one minus sign between the left text and
\* the parenthesised group, and no second sign before the parenthesis.
C18_SubtractionParenthesised ==
    (/\ op.name = "latex"
     /\ expr.k = "Add"
     /\ expr.r.k = "Mul"
     /\ expr.r.l = Integer(-1)
     /\ \/ expr.r.r.k \in {"Add", "Fraction"}
        \/ expr.r.r.k = "Mul" /\ expr.r.r.l # Integer(-1)) =>
        LET left == latex(expr.l)
            inner == latex(expr.r.r)
            n == Len(left)
        IN  /\ result = left \o <<" - ", "\\left(">> \o inner \o <<"\\right)">>
            /\ result[n + 1] = " - "
            /\ result[n + 2] = "\\left("
            /\ result[Len(result)] = "\\right)"

\* C18 witness: a sum that starts with a negative number was subtracted
\* and rendered.
C18_Witness ==
    /\ op.name = "latex"
    /\ expr.k = "Add"
    /\ expr.r.k = "Mul"
    /\ expr.r.l = Integer(-1)
    /\ expr.r.r.k = "Add"
    /\ expr.r.r.l.k = "Integer"
    /\ expr.r.r.l.n < 0
    /\ result[Len(latex(expr.l)) + 1] = " - "

\* C19: a Mul of two purely numeric operands (Integer, Decimal, Fraction
\* of Integers), the left one not Integer(-1), renders with the mark
\* \times between the two operand texts.
C19_TimesBetweenNumbers ==
    LET Number(v) == v.k \in {"Integer", "Decimal"} \/ IsIntegerFraction(v)
    IN  (/\ op.name = "latex"
         /\ expr.k = "Mul"
         /\ Number(expr.l)
         /\ Number(expr.r)
         /\ expr.l # Integer(-1)) =>
            result = latex(expr.l) \o <<" \\times ">> \o latex(expr.r)

\* C20: Interval.latex() separates the bounds by "; " and uses distinct
\* bracket glyphs for open and closed bounds: an Interval with the same
\* bounds and other left_open or right_open renders to another text.
C20_IntervalGlyphs ==
    (op.name = "latex" /\ expr.k = "Interval") =>
        /\ result[Len(latex(expr.l)) + 2] = "; "
        /\ \A lo \in BOOLEAN, ro \in BOOLEAN :
               <<lo, ro>> # <<expr.left_open, expr.right_open>> =>
                   latex(Interval(expr.l, expr.r, lo, ro)) # result

(* ------------------------------------------------------------------ *)
(* MathsGenerator.  Its random source is the module-level generator    *)
(* of Python's random: one state for the whole process, held here as   *)
(* the seed it was last seeded with and the number of draws since.     *)
(* In this specification expr is that process state, with the          *)
(* generators the client holds and what each has returned.             *)
(* ------------------------------------------------------------------ *)
MaxGenerators == 2

MaxDraws == 2

Seeds == 0..2

\* random.randint(a, b) at a given state of the source: a fixed function of
\* the seed and of the number of draws since seeding
randint(seed, drawn, a, b) ==
    IF a > b THEN Raise("ValueError", "empty range for randrange()")
    ELSE PyInt(a + ((7 * seed + 3 * drawn + 1) % (b - a + 1)))

\* the process starts with a source seeded by the system
InitGenerator ==
    /\ expr \in {[k |-> "random", seed |-> s, drawn |-> 0, generators |-> <<>>] : s \in Seeds}
    /\ result = PyNone
    /\ op = Call("import", <<>>)

\* MathsGenerator(seed): random.seed(seed) unless seed is None
MathsGenerator ==
    /\ Len(expr.generators) < MaxGenerators
    /\ \E seed \in {PyNone} \cup {PyInt(s) : s \in Seeds} :
         /\ expr' = [expr EXCEPT
                        !.seed = IF IsNone(seed) THEN @ ELSE seed.n,
                        !.drawn = IF IsNone(seed) THEN @ ELSE 0,
                        !.generators = Append(@, [seed |-> seed, returned |-> <<>>])]
         /\ result' = PyNone
         /\ op' = Call("MathsGenerator", <<seed>>)

\* g.random_integer(): random.randint(0, 100) on the source of the process
random_integer ==
    \E g \in 1..Len(expr.generators) :
        LET n == randint(expr.seed, expr.drawn, 0, 100)
        IN  /\ Len(expr.generators[g].returned) < MaxDraws
            /\ expr' = [expr EXCEPT !.drawn = @ + 1,
                                    !.generators[g].returned = Append(@, Integer(n.n))]
            /\ result' = Integer(n.n)
            /\ op' = Call("random_integer", <<PyInt(g)>>)

\* another consumer of the source draws from it (random.choice, as in
\* random_element_from, or any other caller of random in the process)
OtherConsumer ==
    /\ op.name # "random"
    /\ expr.drawn < 2 * MaxDraws
    /\ expr' = [expr EXCEPT !.drawn = @ + 1]
    /\ result' = PyNone
    /\ op' = Call("random", <<>>)

NextGenerator == MathsGenerator \/ random_integer \/ OtherConsumer

SpecGenerator == InitGenerator /\ [][NextGenerator]_vars

\* C21: the values a seeded MathsGenerator returns depend only on its seed
\* and on its own calls: its i-th value is the i-th value of the stream of
\* its seed, whatever other generators and consumers did in between, and
\* two generators with the same seed return the same sequence.
C21_OwnStream ==
    \A g \in 1..Len(expr.generators) :
        LET self == expr.generators[g]
        IN  ~IsNone(self.seed) =>
                \A i \in 1..Len(self.returned) :
                    self.returned[i] = Integer(randint(self.seed.n, i - 1, 0, 100).n)

(* ------------------------------------------------------------------ *)
(* A client that raises any operand to any operand and simplifies      *)
(* ------------------------------------------------------------------ *)
PowOperands ==
    Atoms \cup {Add(Symbol("x"), Integer(1)), Mul(Integer(2), Symbol("x")),
                Fraction(PyInt(1), PyInt(2)), Fraction(PyInt(1), PyInt(3))}

\* the client writes  Pow(base=b, exp=e)
PowOfOperands ==
    \E b \in PowOperands, e \in PowOperands :
        /\ expr' = Pow(b, e)
        /\ result' = Pow(b, e)
        /\ op' = Call("Pow", <<b, e>>)

NextUnhandled == PowOfOperands \/ Simplify

SpecUnhandled == Init /\ [][NextUnhandled]_vars

\* C22: when the simplified base and exponent of a Pow match none of the
\* rules of Pow.simplified, the call raises NotImplementedError: it neither
\* returns the input node nor asks the backend.
C22_UnhandledPowRaises ==
    (Simplified /\ expr.k = "Pow") =>
        LET base == simplified(expr.base)
            exp == simplified(expr.exp)
            Is(v, cls) == v.k = cls
            matched ==
                \/ Is(exp, "Integer") /\ exp.n = -1
                \/ Is(base, "Integer") /\ Is(exp, "Integer")
                \/ Is(base, "Add") /\ Is(exp, "Integer") /\ exp.n = 2
                \/ Is(base, "Mul") /\ Is(exp, "Fraction")
                \/ Is(base, "Integer") /\ IsIntegerFraction(exp)
                \/ IsIntegerFraction(base) /\ Is(exp, "Integer")
                \/ Is(base, "Decimal") /\ Is(exp, "Integer")
                \/ Is(base, "Symbol") /\ Is(exp, "Integer")
                \/ Is(base, "Integer") /\ Is(exp, "Symbol")
        IN  (Known(base) /\ Known(exp) /\ ~matched) =>
                /\ IsError(result)
                /\ result.type = "NotImplementedError"

\* C22 witness: Pi squared was simplified and the call raised.
C22_Witness ==
    /\ Simplified
    /\ expr.k = "Pow"
    /\ expr.base = Pi
    /\ expr.exp = Integer(2)
    /\ IsError(result)
    /\ result.type = "NotImplementedError"


(* ------------------------------------------------------------------ *)
(* Identity and absorbing elements in Add.simplified and               *)
(* Mul.simplified                                                      *)
(* ------------------------------------------------------------------ *)
\* C23: for every valid node x, Add(x, Integer(0)) and Add(Integer(0), x)
\* simplify to what x simplifies to, Mul(x, Integer(1)) and
\* Mul(Integer(1), x) simplify to what x simplifies to, and
\* Mul(x, Integer(0)) and Mul(Integer(0), x) simplify to Integer(0).
C23_IdentityFirst ==
    (Simplified /\ expr.k \in {"Add", "Mul"} /\ (expr.l.k = "Integer" \/ expr.r.k = "Integer")) =>
        LET unit == IF expr.k = "Add" THEN Integer(0) ELSE Integer(1)
        IN  /\ expr.r = unit => result = simplified(expr.l)
            /\ expr.l = unit => result = simplified(expr.r)
            /\ (expr.k = "Mul" /\ Integer(0) \in {expr.l, expr.r}
                /\ Integer(1) \notin {expr.l, expr.r}) => result = Integer(0)


(* ------------------------------------------------------------------ *)
(* Unary minus applied twice                                           *)
(* ------------------------------------------------------------------ *)
\* C24: for every node x, -(-x) is structurally equal to x.
C24_DoubleNegation ==
    (op.name = "__neg__" /\ ~IsError(result)) => __neg__(result) = op.args[1]


\* C25: in the rendering of a Mul of two numeric operands (the left one not
\* the unary-minus Integer(-1)), a right operand that renders with a leading
\* minus sign is wrapped in \left( \right) after the \times mark, and the
\* left operand is rendered without parentheses.
C25_NegativeRightParenthesised ==
    LET Number(v) == v.k \in {"Integer", "Decimal"} \/ IsIntegerFraction(v)
    IN  (/\ op.name = "latex"
         /\ expr.k = "Mul"
         /\ Number(expr.l)
         /\ Number(expr.r)
         /\ expr.l # Integer(-1)
         /\ latex(expr.r)[1] = "-") =>
            result = latex(expr.l) \o <<" \\times ", "\\left(">> \o latex(expr.r)
                         \o <<"\\right)">>


\* C27: for every valid tree, the rendering of an Add never contains two
\* adjacent minus signs.
C27_NoDoubleMinus ==
    (op.name = "latex" /\ expr.k = "Add") =>
        \A i \in 1..(Len(result) - 1) : ~(result[i] = "-" /\ result[i + 1] = "-")


\* C28: whenever an operand of a Mul is an Add, the rendering of the Mul
\* holds that operand between \left( and \right), whatever the other operand.
C28_AddOperandParenthesised ==
    (op.name = "latex" /\ expr.k = "Mul") =>
        /\ expr.l.k = "Add" =>
               LET group == <<"\\left(">> \o latex(expr.l) \o <<"\\right)">>
               IN  /\ Len(result) >= Len(group)
                   /\ SubSeq(result, 1, Len(group)) = group
        /\ expr.r.k = "Add" =>
               LET group == <<"\\left(">> \o latex(expr.r) \o <<"\\right)">>
               IN  /\ Len(result) >= Len(group)
                   /\ SubSeq(result, Len(result) - Len(group) + 1, Len(result)) = group


\* a tree of Integer and Decimal atoms under Add, Mul and Fraction nodes
RECURSIVE NumericTree(_)
NumericTree(t) ==
    \/ t.k \in {"Integer", "Decimal"}
    \/ t.k \in {"Add", "Mul"} /\ NumericTree(t.l) /\ NumericTree(t.r)
    \/ t.k = "Fraction" /\ NumericTree(t.p) /\ NumericTree(t.q)

\* C26: for every tree of Integer, Decimal and Fraction atoms under Add, Mul
\* and Fraction nodes whose value is defined, simplified() returns a node of
\* the expression model, neither None nor an exception, and
\* Fraction(Integer n, Decimal d) gives a Decimal of value n / d.
C26_NumericTreesSimplify ==
    (Simplified /\ NumericTree(expr) /\ ~IsError(eval(expr))) =>
        /\ IsMathsObject(result)
        /\ (expr.k = "Fraction" /\ expr.p.k = "Integer" /\ expr.q.k = "Decimal") =>
               /\ result.k = "Decimal"
               /\ eval(result) = eval(expr)


(* ------------------------------------------------------------------ *)
(* corrector.correct.  A text is the sequence of its pieces, as in     *)
(* latex; a learner's text holds the commands it types as pieces       *)
(* ("\\frac", "\\left(", "=") and its letters and digits one by one.     *)
(* The backend's part of correct, parse_latex and sp.simplify, is not  *)
(* code of the repository: whether the learner's text parses and       *)
(* whether the difference simplifies to 0 are inputs of the call.      *)
(* ------------------------------------------------------------------ *)
\* the one-character pieces matched by [a-zA-Z0-9]
SingleAlnum == {"0", "1", "2", "5", "x", "y"}

clean_teachers_latex(text) ==
    [i \in 1..Len(text) |->
        CASE text[i] = "." -> ","
          [] text[i] = "\\dfrac{" -> "\\frac{"
          [] OTHER -> text[i]]

RECURSIVE frac_without_braces(_)
frac_without_braces(text) ==
    IF text = <<>> THEN <<>>
    ELSE IF /\ Len(text) >= 3
            /\ text[1] \in {"\\frac", "\\dfrac"}
            /\ text[2] \in SingleAlnum
            /\ text[3] \in SingleAlnum
      THEN <<"\\frac{", text[2], "}{", text[3], "}">>
               \o frac_without_braces(SubSeq(text, 4, Len(text)))
    ELSE <<Head(text)>> \o frac_without_braces(Tail(text))

clean_mathlive(mathlive) ==
    LET replaced == frac_without_braces(mathlive)
        Before == SingleAlnum \cup {")", "}"}
        After == SingleAlnum \cup {"(", "\\frac{"}
        normalised == [i \in 1..Len(replaced) |->
                          CASE replaced[i] = "\\dfrac{" -> "\\frac{"
                            [] replaced[i] = "\\dfrac" -> "\\frac"
                            [] replaced[i] = "\\left(" -> "("
                            [] replaced[i] = "\\right)" -> ")"
                            [] OTHER -> replaced[i]]
    IN  [i \in 1..Len(normalised) |->
            IF /\ normalised[i] \in {">", "<", "="}
               /\ 1 < i
               /\ i < Len(normalised)
               /\ normalised[i - 1] \in Before
               /\ normalised[i + 1] \in After
              THEN " " \o normalised[i] \o " "
            ELSE normalised[i]]

\* correct(user_mathlive, answer_formal_repr); parsed: from_latex returns;
\* equal: the difference of the two backend expressions simplifies to 0.
\* (Each stage is computed once and handed on as a value.)
correct(user_mathlive, answer_formal_repr, parsed, equal) ==
    LET comparison(answer_simplified_maths_object) ==
            IF IsError(answer_simplified_maths_object) THEN answer_simplified_maths_object
            ELSE IF \E t \in Subterms(answer_simplified_maths_object) : IsNone(t)
              THEN Raise("AttributeError", "'NoneType' object has no attribute 'latex'")
            ELSE IF ~parsed THEN Raise("LaTeXParsingError", "from_latex")
            ELSE LET answer_simplified_latex == latex(answer_simplified_maths_object)
                     perfect_latex == clean_teachers_latex(answer_simplified_latex)
                     user_cleaned_mathlive == clean_mathlive(user_mathlive)
                 IN  [k |-> "dict",
                      answer |-> [simplified_latex |-> answer_simplified_latex,
                                  formal_repr |-> answer_formal_repr],
                      is_perfect |-> (user_cleaned_mathlive = perfect_latex),
                      is_correct |-> equal]
        simplification(answer_maths_object) ==
            IF IsError(answer_maths_object) THEN answer_maths_object
            ELSE CHOOSE c \in {comparison(v) : v \in {simplified(answer_maths_object)}} : TRUE
    IN  CHOOSE c \in {simplification(v) : v \in {from_repr(answer_formal_repr)}} : TRUE

\* the texts of the teacher's side for an answer that renders: perfect_latex
\* and the rendering it was cleaned from
TeacherTexts(answer) ==
    LET texts(v) ==
            IF IsError(v) \/ \E t \in Subterms(v) : IsNone(t) THEN {}
            ELSE {clean_teachers_latex(latex(v)), latex(v)}
        simplification(v) ==
            IF IsError(v) THEN {} ELSE UNION {texts(w) : w \in {simplified(v)}}
    IN  UNION {simplification(v) : v \in {from_repr(repr(answer))}}

\* what a learner types: the teacher's texts, and texts of its own
Submissions(answer) ==
    {<<"2">>, <<"\\frac", "1", "2">>, <<"\\dfrac", "1", "2">>, <<"x", "=", "2">>,
     <<"\\left(", "x", "\\right)">>}
    \cup TeacherTexts(answer)

\* the exercise calls  correct(user_mathlive, repr(expr))
Correct ==
    /\ op.name # "correct"
    /\ \E user_mathlive \in Submissions(expr), answer_formal_repr \in {repr(expr)},
          parsed \in BOOLEAN, equal \in BOOLEAN :
         /\ expr' = expr
         /\ result' = correct(user_mathlive, answer_formal_repr, parsed, equal)
         /\ op' = Call("correct", <<user_mathlive, expr>>)

\* the answers the exercises hold
Answers ==
    {Integer(2), Integer(-1), DecimalX(<<1, 2>>), Fraction(PyInt(1), PyInt(2)),
     Symbol("x"), Add(Symbol("x"), Integer(2)), Mul(Integer(2), Symbol("x")),
     Mul(Symbol("x"), Symbol("y")), Equality(Symbol("x"), Integer(2)),
     Fraction(Integer(1), DecimalX(<<1, 2>>))}

\* the exercise holds a new answer
NewAnswer ==
    \E a \in Answers :
        /\ expr' = a
        /\ result' = a
        /\ op' = Call("new", <<>>)

\* the exercise asks for a root of its answer:  expr ** Fraction(p=1, q=n)
Root ==
    /\ op.name = "new"
    /\ IsValue(expr)
    /\ \E n \in {2, 3} :
         LET new == __pow__(expr, Fraction(PyInt(1), PyInt(n)))
         IN  /\ expr' = new
             /\ result' = new
             /\ op' = Call("__pow__", <<expr, Fraction(PyInt(1), PyInt(n))>>)

NextCorrector == NewAnswer \/ Root \/ Correct

SpecCorrector == Init /\ [][NextCorrector]_vars

\* C29: if the learner submits exactly the text that correct computes as the
\* teacher's perfect_latex, for an answer whose simplified form the rule
\* tables decide, the returned result has is_perfect = True.
C29_PerfectAttainable ==
    (/\ op.name = "correct"
     /\ result.k = "dict"
     /\ Known(simplified(expr))
     /\ op.args[1] = clean_teachers_latex(result.answer.simplified_latex)) =>
        result.is_perfect


(* ------------------------------------------------------------------ *)
(* MathsGenerator.discrete_dirichlet_dist.  The frame of the call is   *)
(* held in expr: its arguments, its locals and where it stands (pc);   *)
(* each pass of the loop is one step, and random_integer answers with  *)
(* any integer of the range it is given.                               *)
(* ------------------------------------------------------------------ *)
MaxParts == 4
MaxTotal == 6

\* upper_bound = upper_bound - p.n  (the slot given back is lost)
next_upper_bound_tight(upper_bound, p) == upper_bound - p.n

\* upper_bound = upper_bound - p.n + 1
next_upper_bound(upper_bound, p) == upper_bound - p.n + 1

RECURSIVE sum(_)
sum(probabilities) ==
    IF probabilities = <<>> THEN 0
    ELSE Head(probabilities).n + sum(Tail(probabilities))

InitDirichlet ==
    /\ expr = [k |-> "MathsGenerator", pc |-> "done"]
    /\ result = PyNone
    /\ op = Call("MathsGenerator", <<>>)

\* the exercise calls  gen.discrete_dirichlet_dist(n, q, exclude_zero)
discrete_dirichlet_dist ==
    /\ expr.pc = "done"
    /\ \E n \in 1..MaxParts, q \in 1..MaxTotal, exclude_zero \in BOOLEAN :
         /\ expr' = [k |-> "discrete_dirichlet_dist",
                     pc |-> IF n = 1 THEN "done" ELSE "loop",
                     n |-> n, q |-> q, exclude_zero |-> exclude_zero,
                     lower_bound |-> IF exclude_zero THEN 1 ELSE 0,
                     upper_bound |-> q - (n - 1),
                     probabilities |-> <<>>]
         /\ result' = IF n = 1 THEN [k |-> "list", elements |-> <<Integer(1)>>] ELSE PyNone
         /\ op' = Call("discrete_dirichlet_dist", <<PyInt(n), PyInt(q), PyBool(exclude_zero)>>)

\* one pass of  for i in range(1, n)
Draw ==
    /\ expr.pc = "loop"
    /\ Len(expr.probabilities) < expr.n - 1
    /\ op' = Call("random_integer", <<PyInt(expr.lower_bound), PyInt(expr.upper_bound)>>)
    /\ IF expr.lower_bound > expr.upper_bound
         THEN /\ expr' = [expr EXCEPT !.pc = "done"]
              /\ result' = Raise("ValueError", "empty range for randrange()")
       ELSE \E drawn \in expr.lower_bound..expr.upper_bound :
              LET p == Integer(drawn)
              IN  /\ expr' = [expr EXCEPT !.probabilities = Append(@, p),
                                          !.upper_bound = next_upper_bound(@, p)]
                  /\ result' = p

\* the statements after the loop
Return ==
    /\ expr.pc = "loop"
    /\ Len(expr.probabilities) = expr.n - 1
    /\ LET probabilities == Append(expr.probabilities,
                                   Integer(expr.q - sum(expr.probabilities)))
       IN  /\ expr' = [expr EXCEPT !.pc = "done", !.probabilities = probabilities]
           /\ result' = MathsCollection([i \in 1..Len(probabilities) |->
                                            __truediv__(probabilities[i], PyInt(expr.q))])
    /\ op' = Call("return", <<>>)

NextDirichlet == discrete_dirichlet_dist \/ Draw \/ Return

SpecDirichlet == InitDirichlet /\ [][NextDirichlet]_vars

\* C30: for n >= 2 and q >= n with exclude_zero=True, every call to
\* random_integer has lower bound <= upper bound, and the call returns a
\* collection of exactly n fractions of denominator q whose numerators are
\* all >= 1 and sum to q, whatever the draws.
C30_DirichletSumsToOne ==
    (/\ expr.k = "discrete_dirichlet_dist"
     /\ expr.n >= 2
     /\ expr.q >= expr.n
     /\ expr.exclude_zero) =>
        /\ op.name = "random_integer" => op.args[1].n <= op.args[2].n
        /\ ~IsError(result)
        /\ op.name = "return" =>
               /\ result.k = "MathsCollection"
               /\ Len(result.elements) = expr.n
               /\ \A i \in 1..Len(result.elements) :
                      /\ result.elements[i].k = "Fraction"
                      /\ result.elements[i].q = Integer(expr.q)
                      /\ result.elements[i].p.k = "Integer"
                      /\ result.elements[i].p.n >= 1
               /\ sum([i \in 1..Len(result.elements) |-> result.elements[i].p]) = expr.q

C30_Witness ==
    /\ expr.k = "discrete_dirichlet_dist"
    /\ op.name = "return"
    /\ expr.exclude_zero
    /\ expr.n = 3
    /\ expr.q = 5
    /\ result.k = "MathsCollection"
    /\ result.elements[1].p.n = 3
    /\ result.elements[3].p.n = 1

====
